---- MODULE Spec2Model ----
(***************************************************************************)
(* Model of SimALS-MaxError: approximate logic synthesis under a maximum   *)
(* error bound.  The approximate network is an ABC logic network in SOP    *)
(* form; candidates (LACs) are generated, scored by simulation, sorted,    *)
(* applied on trial, verified by a SAT miter and committed or rolled back. *)
(***************************************************************************)
EXTENDS Integers, Sequences, FiniteSets, TLC

(***************************************************************************)
(* Bounds of the model                                                     *)
(***************************************************************************)
\* cap on the number of rounds of one phase
MaxRound == 4
\* cap on the number of verifier calls that run out of conflict budget
MaxUndef == 1

(***************************************************************************)
(* Sequence helpers (Vec_Int operations of ABC)                            *)
(***************************************************************************)
Max2(a, b) == IF a > b THEN a ELSE b
Min2(a, b) == IF a < b THEN a ELSE b

RECURSIVE Pow2(_)
Pow2(n) == IF n <= 0 THEN 1 ELSE 2 * Pow2(n - 1)

Bit(x, i) == (x \div Pow2(i)) % 2

SeqToSet(s) == {s[i] : i \in 1 .. Len(s)}

\* smallest 1-based position >= start holding Entry, 0 if there is none
Vec_IntFindFrom(p, Entry, start) ==
    LET hits == {i \in start .. Len(p) : p[i] = Entry}
    IN  IF hits = {} THEN 0 ELSE CHOOSE i \in hits : \A j \in hits : i <= j

\* largest position holding Entry, 0 if there is none
Vec_IntFindRev(p, Entry) ==
    LET hits == {i \in 1 .. Len(p) : p[i] = Entry}
    IN  IF hits = {} THEN 0 ELSE CHOOSE i \in hits : \A j \in hits : i >= j

RemoveAt(p, k) == [i \in 1 .. (Len(p) - 1) |-> IF i < k THEN p[i] ELSE p[i + 1]]

\* Vec_IntRemove: drop the first occurrence
Vec_IntRemove(p, Entry) ==
    LET k == Vec_IntFindFrom(p, Entry, 1)
    IN  IF k = 0 THEN p ELSE RemoveAt(p, k)

\* Vec_IntRemoveRev: drop the last occurrence; when the entry is absent the
\* loop index ends at -1 and the shift drops the head of the vector
Vec_IntRemoveRev(p, Entry) ==
    LET k == Vec_IntFindRev(p, Entry)
    IN  IF k = 0 THEN (IF Len(p) = 0 THEN p ELSE Tail(p)) ELSE RemoveAt(p, k)

\* remove every occurrence
RemoveAll(p, Entry) == SelectSeq(p, LAMBDA e : e # Entry)

(***************************************************************************)
(* SOP functions: a list of cubes over "0", "1", "-" and an output phase   *)
(***************************************************************************)
NoSop == [cubes |-> <<>>, out |-> 2]
SopConst0 == [cubes |-> << <<>> >>, out |-> 0]
SopConst1 == [cubes |-> << <<>> >>, out |-> 1]
SopBuf == [cubes |-> << <<"1">> >>, out |-> 1]
SopInv == [cubes |-> << <<"0">> >>, out |-> 1]
SopAnd == [cubes |-> << <<"1", "1">> >>, out |-> 1]
SopOr == [cubes |-> << <<"1", "-">>, <<"-", "1">> >>, out |-> 1]
SopXor == [cubes |-> << <<"1", "0">>, <<"0", "1">> >>, out |-> 1]
SopNand == [cubes |-> << <<"1", "1">> >>, out |-> 0]
SopAndN == [cubes |-> << <<"1", "0">> >>, out |-> 1]

CubeHolds(cube, vals) ==
    \A i \in 1 .. Len(cube) :
        \/ cube[i] = "-"
        \/ cube[i] = "1" /\ vals[i] = 1
        \/ cube[i] = "0" /\ vals[i] = 0

\* value of an SOP on fanin values (Simulator::UpdSopNode)
SopVal(sop, vals) ==
    LET on == \E c \in 1 .. Len(sop.cubes) : CubeHolds(sop.cubes[c], vals)
    IN  IF on THEN sop.out ELSE 1 - sop.out

(***************************************************************************)
(* Networks: objects with stable IDs, ordered fanin and fanout lists       *)
(***************************************************************************)
\* the object table is indexed by 0 .. idMaxPlus1 - 1; a deleted object
\* leaves a free slot ("none") and its ID is never given out again
EmptyNet ==
    [kind |-> [i \in {} |-> "none"],
     fanins |-> [i \in {} |-> <<>>],
     fanouts |-> [i \in {} |-> <<>>],
     sop |-> [i \in {} |-> NoSop],
     idMaxPlus1 |-> 0]

Ids(net) == 0 .. (net.idMaxPlus1 - 1)

IsObj(net, id) == id \in Ids(net) /\ net.kind[id] # "none"
IsNode(net, id) == id \in Ids(net) /\ net.kind[id] = "node"
IsObjPi(net, id) == id \in Ids(net) /\ net.kind[id] = "pi"
IsObjPo(net, id) == id \in Ids(net) /\ net.kind[id] = "po"
GetFaninNum(net, id) == Len(net.fanins[id])
GetFanoutNum(net, id) == Len(net.fanouts[id])

\* Abc_NodeIsConst0 / Abc_NodeIsConst1 on an SOP node
IsConst0(net, id) == IsNode(net, id) /\ GetFaninNum(net, id) = 0 /\ net.sop[id].out = 0
IsConst1(net, id) == IsNode(net, id) /\ GetFaninNum(net, id) = 0 /\ net.sop[id].out = 1
IsConst(net, id) == IsConst0(net, id) \/ IsConst1(net, id)

\* ascending list of the members of a set of IDs
RECURSIVE SortedSeq(_)
SortedSeq(S) ==
    IF S = {} THEN <<>>
    ELSE LET m == CHOOSE x \in S : \A y \in S : x <= y
         IN  <<m>> \o SortedSeq(S \ {m})

PiIds(net) == SortedSeq({i \in Ids(net) : net.kind[i] = "pi"})
PoIds(net) == SortedSeq({i \in Ids(net) : net.kind[i] = "po"})
GetPiNum(net) == Len(PiIds(net))
GetPoNum(net) == Len(PoIds(net))

\* Abc_NtkCreateObj: the new ID is the current size of the object table
CreateObj(net, k, f) ==
    LET n == net.idMaxPlus1
        Ext(g, v) == [i \in 0 .. n |-> IF i < n THEN g[i] ELSE v]
    IN  [kind |-> Ext(net.kind, k),
         fanins |-> Ext(net.fanins, <<>>),
         fanouts |-> Ext(net.fanouts, <<>>),
         sop |-> Ext(net.sop, f),
         idMaxPlus1 |-> n + 1]

\* Abc_ObjAddFanin
AddFanin(net, obj, fanin) ==
    [net EXCEPT !.fanins[obj] = Append(@, fanin),
                !.fanouts[fanin] = Append(@, obj)]

RECURSIVE AddFanins(_, _, _)
AddFanins(net, obj, fs) ==
    IF fs = <<>> THEN net
    ELSE AddFanins(AddFanin(net, obj, Head(fs)), obj, Tail(fs))

\* NetMan::CreateNode(const IntVect&, const std::string&)
CreateNode(net, faninIds, f) ==
    AddFanins(CreateObj(net, "node", f), net.idMaxPlus1, faninIds)

\* Abc_ObjPatchFanin: first occurrence of the old fanin is rewritten
Abc_ObjPatchFanin(net, obj, old, new) ==
    LET k == Vec_IntFindFrom(net.fanins[obj], old, 1)
    IN  IF k = 0 THEN net
        ELSE LET n1 == [net EXCEPT !.fanins[obj][k] = new]
                 n2 == [n1 EXCEPT !.fanouts[old] = Vec_IntRemove(@, obj)]
             IN  [n2 EXCEPT !.fanouts[new] = Append(@, obj)]

\* NetMan::PatchFanin: the fanin slot iFanin (0-based) is rewritten
PatchFanin(net, obj, iFanin, old, new) ==
    LET n1 == [net EXCEPT !.fanins[obj][iFanin + 1] = new]
        n2 == [n1 EXCEPT !.fanouts[old] = Vec_IntRemoveRev(@, obj)]
    IN  [n2 EXCEPT !.fanouts[new] = Append(@, obj)]

\* Abc_NtkDeleteObj: detach from fanouts and fanins, free the table slot
RECURSIVE DetachFanouts(_, _, _)
DetachFanouts(net, id, fos) ==
    IF fos = <<>> THEN net
    ELSE LET fo == Head(fos)
             k == Vec_IntFindFrom(net.fanins[fo], id, 1)
             n1 == IF k = 0 THEN net
                   ELSE [net EXCEPT !.fanins[fo] = RemoveAt(@, k),
                                    !.fanouts[id] = Vec_IntRemove(@, fo)]
         IN  DetachFanouts(n1, id, Tail(fos))

RECURSIVE DetachFanins(_, _, _)
DetachFanins(net, id, fis) ==
    IF fis = <<>> THEN net
    ELSE LET fi == Head(fis)
             k == Vec_IntFindFrom(net.fanins[id], fi, 1)
             n1 == IF k = 0 THEN net
                   ELSE [net EXCEPT !.fanins[id] = RemoveAt(@, k),
                                    !.fanouts[fi] = Vec_IntRemove(@, id)]
         IN  DetachFanins(n1, id, Tail(fis))

DelObj(net, id) ==
    LET Free(n2) == [n2 EXCEPT !.kind[id] = "none", !.sop[id] = NoSop,
                               !.fanins[id] = <<>>, !.fanouts[id] = <<>>]
        Fanins(n1) == Free(DetachFanins(n1, id, n1.fanins[id]))
    IN  Fanins(DetachFanouts(net, id, net.fanouts[id]))

(***************************************************************************)
(* Structure queries                                                       *)
(***************************************************************************)
\* IsPoDriver: some fanout is a primary output
IsPoDriver(net, id) == \E i \in 1 .. Len(net.fanouts[id]) : IsObjPo(net, net.fanouts[id][i])

\* transitive fanin closure of a set of objects (the set included)
RECURSIVE TfiClosure(_, _)
TfiClosure(net, S) ==
    LET T == S \cup UNION {SeqToSet(net.fanins[i]) : i \in S}
    IN  IF T = S THEN S ELSE TfiClosure(net, T)

\* objects in the transitive fanin of the primary outputs
ConeOfPos(net) == TfiClosure(net, {i \in Ids(net) : net.kind[i] = "po"})

\* a cycle test that looks at self-loops only
IsAcyclic_SelfLoopsOnly(net) ==
    \A n \in ConeOfPos(net) : n \notin SeqToSet(net.fanins[n])

\* Abc_NtkIsAcyclic: depth-first search from the combinational outputs
IsAcyclic(net) ==
    \A n \in ConeOfPos(net) : n \notin TfiClosure(net, SeqToSet(net.fanins[n]))

\* Abc_NtkLevel_rec: level of an object of an acyclic network
RECURSIVE ObjLevel(_, _)
ObjLevel(net, id) ==
    IF net.kind[id] # "node" \/ GetFaninNum(net, id) = 0 THEN 0
    ELSE LET ls == {ObjLevel(net, net.fanins[id][i]) : i \in 1 .. GetFaninNum(net, id)}
         IN  1 + (CHOOSE l \in ls : \A m \in ls : l >= m)

\* Abc_NtkLevel: the largest node level
GetLev(net) ==
    LET ls == {ObjLevel(net, i) : i \in {j \in Ids(net) : net.kind[j] = "node"}} \cup {0}
    IN  CHOOSE l \in ls : \A m \in ls : l >= m

\* NetMan::GetArea on an SOP network: nodes that are not constants
GetArea(net) == Cardinality({i \in Ids(net) : IsNode(net, i) /\ ~IsConst(net, i)})

\* NetMan::GetDelay on an SOP network
GetDelay(net) == GetLev(net)

\* NetMan::CalcTopoOrdRec / CalcTopoOrd: post-order DFS from the PO drivers,
\* constants and non-nodes are skipped; acc is the order built so far
RECURSIVE CalcTopoOrdRec(_, _, _)
RECURSIVE CalcTopoOrdFanins(_, _, _)
CalcTopoOrdFanins(net, fis, acc) ==
    IF fis = <<>> THEN acc
    ELSE CalcTopoOrdFanins(net, Tail(fis), CalcTopoOrdRec(net, Head(fis), acc))

CalcTopoOrdRec(net, id, acc) ==
    IF ~IsNode(net, id) \/ IsConst(net, id) \/ id \in SeqToSet(acc) THEN acc
    ELSE Append(CalcTopoOrdFanins(net, net.fanins[id], acc), id)

RECURSIVE CalcTopoOrdPos(_, _, _)
CalcTopoOrdPos(net, pos, acc) ==
    IF pos = <<>> THEN acc
    ELSE CalcTopoOrdPos(net, Tail(pos), CalcTopoOrdRec(net, net.fanins[Head(pos)][1], acc))

CalcTopoOrd(net) == CalcTopoOrdPos(net, PoIds(net), <<>>)

(***************************************************************************)
(* Logic simulation of one input pattern                                   *)
(***************************************************************************)
\* a pattern x assigns bit i of x to the i-th primary input (GenInpEnum)
PiIndex(net, id) == Cardinality({j \in Ids(net) : net.kind[j] = "pi" /\ j < id})

\* Simulator::UpdNodeAndPoPatts on one frame: value of an object
RECURSIVE ObjVal(_, _, _)
ObjVal(net, id, x) ==
    IF net.kind[id] = "pi" THEN Bit(x, PiIndex(net, id))
    ELSE IF net.kind[id] = "po" THEN ObjVal(net, net.fanins[id][1], x)
    ELSE SopVal(net.sop[id], [i \in 1 .. GetFaninNum(net, id) |-> ObjVal(net, net.fanins[id][i], x)])

\* value of an object when the node flip takes the complemented value
\* (Simulator::CalcBoolDiff re-propagates the flipped target)
RECURSIVE ObjValFlip(_, _, _, _)
ObjValFlip(net, id, x, flip) ==
    IF id = flip THEN 1 - ObjVal(net, id, x)
    ELSE IF net.kind[id] = "pi" THEN Bit(x, PiIndex(net, id))
    ELSE IF net.kind[id] = "po" THEN ObjValFlip(net, net.fanins[id][1], x, flip)
    ELSE SopVal(net.sop[id], [i \in 1 .. GetFaninNum(net, id) |-> ObjValFlip(net, net.fanins[id][i], x, flip)])

\* output bits of a pattern, PO 0 first
PoVals(net, x) == [k \in 1 .. GetPoNum(net) |-> ObjVal(net, PoIds(net)[k], x)]

\* Simulator::GetValue: the outputs read as an unsigned number, PO 0 is the LSB
RECURSIVE BitsToInt(_)
BitsToInt(bits) == IF bits = <<>> THEN 0 ELSE Head(bits) + 2 * BitsToInt(Tail(bits))

RECURSIVE SumSeq(_)
SumSeq(s) == IF s = <<>> THEN 0 ELSE Head(s) + SumSeq(Tail(s))

Xor(a, b) == (a + b) % 2

AbsDiff(a, b) == IF a > b THEN a - b ELSE b - a

(***************************************************************************)
(* Constants, temporary replacement and recovery (my_abc.cc)               *)
(***************************************************************************)
MinOrNeg(S) == IF S = {} THEN -1 ELSE CHOOSE x \in S : \A y \in S : x <= y

\* NetMan::GetConstIds: first constant-0 and first constant-1 node, -1 if none
GetConstIds(net) ==
    <<MinOrNeg({i \in Ids(net) : IsConst0(net, i)}),
      MinOrNeg({i \in Ids(net) : IsConst1(net, i)})>>

\* NetMan::CreateConstsIfNotExist: missing constants are created
CreateConstsIfNotExist(net) ==
    LET Second(c, n1) ==
            [net |-> IF c[2] = -1 THEN CreateObj(n1, "node", SopConst1) ELSE n1,
             first |-> IF c[1] = -1 THEN net.idMaxPlus1 ELSE c[1],
             second |-> IF c[2] = -1 THEN n1.idMaxPlus1 ELSE c[2]]
        First(c) == Second(c, IF c[1] = -1 THEN CreateObj(net, "node", SopConst0) ELSE net)
    IN  First(GetConstIds(net))

\* the (fanout, iFanin) pairs recorded by TempRepl_v2; seen holds the pairs
\* already recorded, a repeated fanout takes the next slot holding pTS
RECURSIVE TracePairs(_, _, _, _)
TracePairs(net, tsId, pFanouts, seen) ==
    IF pFanouts = <<>> THEN <<>>
    ELSE LET fo == Head(pFanouts)
             slots == {i \in 1 .. Len(net.fanins[fo]) :
                          net.fanins[fo][i] = tsId /\ <<fo, i - 1>> \notin seen}
             iFanin == MinOrNeg(slots) - 1
         IN  <<fo, iFanin>> \o TracePairs(net, tsId, Tail(pFanouts), seen \cup {<<fo, iFanin>>})

\* Abc_ObjTransferFanout_v2
RECURSIVE Abc_ObjTransferFanout_v2(_, _, _, _)
Abc_ObjTransferFanout_v2(net, pFanouts, from, to) ==
    IF pFanouts = <<>> THEN net
    ELSE Abc_ObjTransferFanout_v2(Abc_ObjPatchFanin(net, Head(pFanouts), from, to),
                                  Tail(pFanouts), from, to)

\* NetMan::TempRepl_v2: the fanouts of pTS (except pSS itself) move to pSS
TempRepl_v2(net, tsId, ssId) ==
    LET pFanouts == SelectSeq(net.fanouts[tsId], LAMBDA fo : fo # ssId)
    IN  [net |-> Abc_ObjTransferFanout_v2(net, pFanouts, tsId, ssId),
         replTrace |-> <<tsId, ssId>> \o TracePairs(net, tsId, pFanouts, {})]

RECURSIVE RecovPatch(_, _, _, _)
RecovPatch(net, replTrace, i, patchFaninEnd) ==
    IF 2 * i + 2 > patchFaninEnd THEN net
    ELSE RecovPatch(PatchFanin(net, replTrace[2 * i + 1], replTrace[2 * i + 2],
                               replTrace[2], replTrace[1]),
                    replTrace, i + 1, patchFaninEnd)

RECURSIVE RecovDelete(_, _)
RecovDelete(net, ids) ==
    IF ids = <<>> THEN net ELSE RecovDelete(DelObj(net, Head(ids)), Tail(ids))

\* NetMan::Recov_v2: patch the recorded slots back to pTS, delete the
\* objects listed after the -1 separator
Recov_v2(net, replTrace) ==
    LET sep == Vec_IntFindFrom(replTrace, -1, 1)
        patchFaninEnd == IF sep = 0 THEN Len(replTrace) ELSE sep - 1
        Delete(n1) == IF sep = 0 THEN n1
                      ELSE RecovDelete(n1, SubSeq(replTrace, sep + 1, Len(replTrace)))
    IN  Delete(RecovPatch(net, replTrace, 1, patchFaninEnd))

(***************************************************************************)
(* Candidates (lac.h, lac.cc)                                              *)
(***************************************************************************)
\* initial value of LAC::err
DBL_MAX == 1000000

LAC(targ, gain, divs, sop) ==
    [targId |-> targ, sizeGain |-> gain, err |-> DBL_MAX, divs |-> divs, sop |-> sop]

LacIsConst0(lac) == lac.divs = <<>> /\ lac.sop = SopConst0
LacIsConst1(lac) == lac.divs = <<>> /\ lac.sop = SopConst1
LacIsConst(lac) == LacIsConst0(lac) \/ LacIsConst1(lac)

\* the text of an SOP: the cube characters, a blank, the phase, a line end
RECURSIVE SopText(_, _)
SopText(cubes, out) ==
    IF cubes = <<>> THEN <<>>
    ELSE Head(cubes) \o <<" ", IF out = 1 THEN "1" ELSE "0", "\n">> \o SopText(Tail(cubes), out)

\* decimal digits of a non-negative integer
Digit(d) == <<"0", "1", "2", "3", "4", "5", "6", "7", "8", "9">>[d + 1]

RECURSIVE DecStr(_)
DecStr(n) == IF n < 10 THEN <<Digit(n)>> ELSE Append(DecStr(n \div 10), Digit(n % 10))

RECURSIVE JoinComma(_)
JoinComma(divs) ==
    IF divs = <<>> THEN <<>>
    ELSE IF Len(divs) = 1 THEN DecStr(divs[1])
    ELSE DecStr(divs[1]) \o <<",">> \o JoinComma(Tail(divs))

\* LAC::ToStrShort: "n{targId}d{divs joined by ,}f{sop}" as a character list
ToStrShort(lac) ==
    <<"n">> \o DecStr(lac.targId) \o <<"d">> \o JoinComma(lac.divs) \o <<"f">>
        \o SopText(lac.sop.cubes, lac.sop.out)

\* TempApplyLac: a constant candidate redirects the target to a constant
\* node, any other candidate to a freshly created node that is recorded
\* for deletion after the -1 separator
TempApplyLac(net, lac) ==
    LET Traced(r, ssId, vDel) ==
            [net |-> r.net, replTrace |-> r.replTrace \o vDel, ssId |-> ssId]
        Repl(n1, ssId, vDel) == Traced(TempRepl_v2(n1, lac.targId, ssId), ssId, vDel)
        ToConst(c) == Repl(c.net, IF LacIsConst0(lac) THEN c.first ELSE c.second, <<>>)
    IN  IF LacIsConst(lac)
        THEN ToConst(CreateConstsIfNotExist(net))
        ELSE Repl(CreateNode(net, lac.divs, lac.sop), net.idMaxPlus1,
                  <<-1, net.idMaxPlus1>>)

\* a recovery that leaves the network as it is
RecovNet_None(net, replTraces) == net

\* RecovNet: the traces are undone in reverse order
RECURSIVE RecovNet(_, _)
RecovNet(net, replTraces) ==
    IF replTraces = <<>> THEN net
    ELSE RecovNet(Recov_v2(net, replTraces[Len(replTraces)]),
                  SubSeq(replTraces, 1, Len(replTraces) - 1))

\* NodeDeref_rec: refs holds the current fanout counters (vFanouts.nSize);
\* IsPoDriver looks at the first refs[node] entries of the fanout list
RECURSIVE NodeDeref_rec(_, _, _, _, _)
RECURSIVE NodeDerefFanins(_, _, _, _, _, _)
NodeDerefFanins(net, root, fis, divSet, refs, cnt) ==
    IF fis = <<>> THEN [cnt |-> cnt, refs |-> refs]
    ELSE LET f == Head(fis)
             r1 == [refs EXCEPT ![f] = @ - 1]
         IN  IF r1[f] = 0
             THEN LET sub == NodeDeref_rec(net, root, f, divSet, r1)
                  IN  NodeDerefFanins(net, root, Tail(fis), divSet, sub.refs, cnt + sub.cnt)
             ELSE NodeDerefFanins(net, root, Tail(fis), divSet, r1, cnt)

NodeDeref_rec(net, root, node, divSet, refs) ==
    IF \/ IsObjPi(net, node)
       \/ node \in divSet
       \/ (root # node /\ \E i \in 1 .. refs[node] : IsObjPo(net, net.fanouts[node][i]))
    THEN [cnt |-> 0, refs |-> refs]
    ELSE NodeDerefFanins(net, root, net.fanins[node], divSet, refs, 1)

\* NetMan::GetSizeGain(int, const IntVect&): size of the cone that loses
\* its last reference when the root is removed and the divisors are kept
GetSizeGain(net, rootId, divIds) ==
    NodeDeref_rec(net, rootId, rootId, SeqToSet(divIds),
                  [i \in Ids(net) |-> Len(net.fanouts[i])]).cnt

\* a re-reference that restores nothing
NodeRef_None(net, root, node, divSet, refs) == [cnt |-> 0, refs |-> refs]

\* NodeRef_rec: the counter of each fanin is raised, a fanin whose counter
\* was 0 is entered
RECURSIVE NodeRef_rec(_, _, _, _, _)
RECURSIVE NodeRefFanins(_, _, _, _, _, _)
NodeRefFanins(net, root, fis, divSet, refs, cnt) ==
    IF fis = <<>> THEN [cnt |-> cnt, refs |-> refs]
    ELSE LET f == Head(fis)
             r1 == [refs EXCEPT ![f] = @ + 1]
         IN  IF refs[f] = 0
             THEN LET sub == NodeRef_rec(net, root, f, divSet, r1)
                  IN  NodeRefFanins(net, root, Tail(fis), divSet, sub.refs, cnt + sub.cnt)
             ELSE NodeRefFanins(net, root, Tail(fis), divSet, r1, cnt)

NodeRef_rec(net, root, node, divSet, refs) ==
    IF \/ IsObjPi(net, node)
       \/ node \in divSet
       \/ (root # node /\ \E i \in 1 .. refs[node] :
              i <= Len(net.fanouts[node]) /\ IsObjPo(net, net.fanouts[node][i]))
    THEN [cnt |-> 0, refs |-> refs]
    ELSE NodeRefFanins(net, root, net.fanins[node], divSet, refs, 1)

\* NetMan::GetSizeGain(int, const IntVect&): the fanout counters the call
\* leaves behind, after NodeDeref_rec and NodeRef_rec
GetSizeGainRefs(net, rootId, divIds) ==
    NodeRef_rec(net, rootId, rootId, SeqToSet(divIds),
                NodeDeref_rec(net, rootId, rootId, SeqToSet(divIds),
                              [i \in Ids(net) |-> Len(net.fanouts[i])]).refs).refs

\* concatenation of g[lo], ..., g[hi - 1]
RECURSIVE ConcatOver(_, _, _)
ConcatOver(g, lo, hi) == IF lo >= hi THEN <<>> ELSE g[lo] \o ConcatOver(g, lo + 1, hi)

\* LACMan::GenConstLACs: constant 1 then constant 0 for every non-constant node
GenConstLACs(net) ==
    LET Both(nodeId, sizeGain) ==
            <<LAC(nodeId, sizeGain, <<>>, SopConst1), LAC(nodeId, sizeGain, <<>>, SopConst0)>>
    IN  ConcatOver([nodeId \in Ids(net) |->
                       IF IsNode(net, nodeId) /\ ~IsConst(net, nodeId)
                       THEN Both(nodeId, GetSizeGain(net, nodeId, <<>>))
                       ELSE <<>>],
                   0, net.idMaxPlus1)

\* default of ALSOpt::maxCandLacs
maxCandLacs == 100000

\* the substitution candidates of one target: signals of a lower level, a
\* buffer and an inverter each, until the per-node quota is reached
RECURSIVE SasimiLacsOfTarg(_, _, _, _, _)
SasimiLacsOfTarg(net, targId, subId, lacNum, MAX_LAC_PER_NODE) ==
    LET Two(sizeGain) == <<LAC(targId, sizeGain, <<subId>>, SopBuf),
                           LAC(targId, sizeGain, <<subId>>, SopInv)>>
    IN  IF subId >= net.idMaxPlus1 THEN <<>>
        ELSE IF ~IsObj(net, subId) \/ IsObjPo(net, subId) \/ IsConst(net, subId)
                \/ targId = subId
             THEN SasimiLacsOfTarg(net, targId, subId + 1, lacNum, MAX_LAC_PER_NODE)
        ELSE IF ObjLevel(net, subId) < ObjLevel(net, targId)
             THEN Two(GetSizeGain(net, targId, <<subId>>))
                  \o (IF lacNum + 2 >= MAX_LAC_PER_NODE THEN <<>>
                      ELSE SasimiLacsOfTarg(net, targId, subId + 1, lacNum + 2,
                                            MAX_LAC_PER_NODE))
        ELSE SasimiLacsOfTarg(net, targId, subId + 1, lacNum, MAX_LAC_PER_NODE)

\* LACMan::GenSasimiLACs
GenSasimiLACs(net, maxCandResub, inclConst) ==
    LET IsTarg(i) == IsNode(net, i) /\ ~IsConst(net, i) /\ GetFaninNum(net, i) > 1
        OfTargs(nTarg) ==
            IF nTarg = 0 THEN <<>>
            ELSE ConcatOver([i \in Ids(net) |->
                                IF IsTarg(i)
                                THEN SasimiLacsOfTarg(net, i, 0, 0,
                                                      Max2(1, maxCandResub \div nTarg))
                                ELSE <<>>],
                            0, net.idMaxPlus1)
    IN  (IF inclConst THEN GenConstLACs(net) ELSE <<>>)
        \o OfTargs(Cardinality({i \in Ids(net) : IsTarg(i)}))

(***************************************************************************)
(* Cleanup and constant propagation (NetMan::Sweep)                        *)
(***************************************************************************)
\* Abc_ObjDeleteFanin: first occurrence on both sides
Abc_ObjDeleteFanin(net, obj, fanin) ==
    [net EXCEPT !.fanins[obj] = Vec_IntRemove(@, fanin),
                !.fanouts[fanin] = Vec_IntRemove(@, obj)]

\* Abc_ObjRemoveFanins
RECURSIVE Abc_ObjRemoveFanins(_, _)
Abc_ObjRemoveFanins(net, obj) ==
    IF net.fanins[obj] = <<>> THEN net
    ELSE LET fi == net.fanins[obj][Len(net.fanins[obj])]
         IN  Abc_ObjRemoveFanins(
                 [net EXCEPT !.fanins[obj] = SubSeq(@, 1, Len(@) - 1),
                             !.fanouts[fi] = Vec_IntRemove(@, obj)], obj)

\* Abc_NtkDeleteObj_rec with fOnlyNodes = 1: fanin nodes left without
\* fanouts are deleted as well
RECURSIVE Abc_NtkDeleteObj_rec(_, _)
RECURSIVE DeleteDanglingOf(_, _)
DeleteDanglingOf(net, fis) ==
    IF fis = <<>> THEN net
    ELSE LET f == Head(fis)
         IN  IF IsNode(net, f) /\ GetFanoutNum(net, f) = 0
             THEN DeleteDanglingOf(Abc_NtkDeleteObj_rec(net, f), Tail(fis))
             ELSE DeleteDanglingOf(net, Tail(fis))

Abc_NtkDeleteObj_rec(net, id) == DeleteDanglingOf(DelObj(net, id), net.fanins[id])

\* Abc_NtkCleanup: every node outside the cone of the outputs is deleted
RECURSIVE DeleteAll(_, _)
DeleteAll(net, ids) ==
    IF ids = <<>> THEN net ELSE DeleteAll(DelObj(net, Head(ids)), Tail(ids))

CleanUp(net) ==
    LET keep == ConeOfPos(net)
    IN  DeleteAll(net, SortedSeq({i \in Ids(net) : IsNode(net, i) /\ i \notin keep}))

\* Abc_ObjTransferFanout
RECURSIVE PatchAll(_, _, _, _)
PatchAll(net, fos, from, to) ==
    IF fos = <<>> THEN net
    ELSE PatchAll(Abc_ObjPatchFanin(net, Head(fos), from, to), Tail(fos), from, to)

\* Abc_ObjReplace
Abc_ObjReplace(net, old, new) ==
    Abc_NtkDeleteObj_rec(PatchAll(net, net.fanouts[old], old, new), old)

\* NetMan::MergeConst: later constants of a polarity are replaced by the first
RECURSIVE MergeConstFrom(_, _, _, _)
MergeConstFrom(net, id, first, second) ==
    IF id >= net.idMaxPlus1 THEN net
    ELSE IF IsConst0(net, id)
         THEN IF first = -1 THEN MergeConstFrom(net, id + 1, id, second)
              ELSE MergeConstFrom(Abc_ObjReplace(net, id, first), id + 1, first, second)
    ELSE IF IsConst1(net, id)
         THEN IF second = -1 THEN MergeConstFrom(net, id + 1, first, id)
              ELSE MergeConstFrom(Abc_ObjReplace(net, id, second), id + 1, first, second)
    ELSE MergeConstFrom(net, id + 1, first, second)

MergeConst(net) == MergeConstFrom(net, 0, -1, -1)

\* SetConstInput: the first slot of pNode holding pFanin is fixed to a
\* constant; cubes contradicted by the constant are dropped, the column of
\* the slot is removed from the others
SetConstInput(net, pNode, pFanin, fConst0) ==
    LET iFanin == Vec_IntFindFrom(net.fanins[pNode], pFanin, 1)
        Without(kept) == [k \in 1 .. Len(kept) |-> RemoveAt(kept[k], iFanin)]
        NewSop(cubes) == IF cubes = <<>>
                         THEN (IF net.sop[pNode].out = 0 THEN SopConst1 ELSE SopConst0)
                         ELSE [cubes |-> cubes, out |-> net.sop[pNode].out]
        Set(newSop) ==
            [(IF newSop = SopConst1 \/ newSop = SopConst0
              THEN Abc_ObjRemoveFanins(net, pNode)
              ELSE Abc_ObjDeleteFanin(net, pNode, pFanin)) EXCEPT !.sop[pNode] = newSop]
    IN  Set(NewSop(Without(SelectSeq(net.sop[pNode].cubes,
                                     LAMBDA c : IF fConst0 THEN c[iFanin] # "1"
                                                ELSE c[iFanin] # "0"))))

\* Abc_SopIsInv: a single cube over one variable whose literal and output
\* characters differ
Abc_NodeIsInv(net, id) ==
    /\ GetFaninNum(net, id) = 1
    /\ Len(net.sop[id].cubes) = 1
    /\ \/ net.sop[id].cubes[1][1] = "0" /\ net.sop[id].out = 1
       \/ net.sop[id].cubes[1][1] = "1" /\ net.sop[id].out = 0

\* Abc_NodeComplementInput: the column of the fanin is complemented
Abc_NodeComplementInput(net, pNode, pFanin) ==
    LET iFanin == Vec_IntFindFrom(net.fanins[pNode], pFanin, 1)
        Flip(ch) == IF ch = "0" THEN "1" ELSE IF ch = "1" THEN "0" ELSE ch
    IN  [net EXCEPT !.sop[pNode].cubes =
            [k \in 1 .. Len(@) |-> [@[k] EXCEPT ![iFanin] = Flip(@)]]]

\* Abc_NodeFindNonCoFanout: first fanout that is not an output, -1 if none
Abc_NodeFindNonCoFanout(net, id) ==
    LET ks == {k \in 1 .. Len(net.fanouts[id]) : ~IsObjPo(net, net.fanouts[id][k])}
    IN  IF ks = {} THEN -1 ELSE net.fanouts[id][CHOOSE k \in ks : \A j \in ks : k <= j]

\* NetMan::PropConst(startId, false): worklist of constants, buffers and
\* inverters that are absorbed by their fanouts
RECURSIVE PropConstLoop(_, _)
PropConstLoop(net, vNodes) ==
    LET pNode == vNodes[Len(vNodes)]
        rest == SubSeq(vNodes, 1, Len(vNodes) - 1)
        \* the fanout takes the constant, or the driver of the buffer or inverter
        Absorb(pFanout) ==
            IF GetFaninNum(net, pNode) = 0
            THEN SetConstInput(net, pFanout, pNode, IsConst0(net, pNode))
            ELSE Abc_ObjPatchFanin(IF Abc_NodeIsInv(net, pNode)
                                   THEN Abc_NodeComplementInput(net, pFanout, pNode)
                                   ELSE net,
                                   pFanout, pNode, net.fanins[pNode][1])
        \* the node is visited again while it has fanouts, and deleted after
        Again(n1, v1) ==
            IF GetFanoutNum(n1, pNode) > 0
            THEN PropConstLoop(n1, Append(v1, pNode))
            ELSE PropConstLoop(Abc_NtkDeleteObj_rec(n1, pNode), v1)
        \* a fanout left with fewer than two fanins joins the worklist
        Queue(n1, pFanout) ==
            Again(n1, IF GetFaninNum(n1, pFanout) < 2 THEN Append(rest, pFanout) ELSE rest)
        Visit(pFanout) ==
            IF ~IsNode(net, pNode) \/ pFanout = -1 THEN PropConstLoop(net, rest)
            ELSE Queue(Absorb(pFanout), pFanout)
    IN  IF vNodes = <<>> THEN net ELSE Visit(Abc_NodeFindNonCoFanout(net, pNode))

PropConstFrom(net, startId) == PropConstLoop(net, <<startId>>)

\* NetMan::PropConst(): merge, propagate constant 0 then constant 1, clean
PropConst(net) ==
    LET From0(n0, c0) == IF c0 # -1 THEN PropConstFrom(n0, c0) ELSE n0
        From1(n1, c1) == IF c1 # -1 /\ IsNode(n1, c1) THEN PropConstFrom(n1, c1) ELSE n1
        Prop(n0, c) == CleanUp(From1(From0(n0, c[1]), c[2]))
        Merged(n0) == Prop(n0, GetConstIds(n0))
    IN  Merged(MergeConst(net))

\* the closing assertion of PropConst(): constants feed outputs only
PropConstAssertOk(net) ==
    LET c == GetConstIds(net)
    IN  \A k \in 1 .. 2 : c[k] # -1 =>
            \A i \in 1 .. GetFanoutNum(net, c[k]) : IsObjPo(net, net.fanouts[c[k]][i])

\* the opening assertion of the second PropConst(startId): the constant 1
\* found before the first propagation is still a constant node
PropConstStartOk(net) ==
    LET After0(n0, c) ==
            c[2] = -1 \/ IsConst(IF c[1] # -1 THEN PropConstFrom(n0, c[1]) ELSE n0, c[2])
        Merged(n0) == After0(n0, GetConstIds(n0))
    IN  Merged(MergeConst(net))

\* NetMan::Sweep
Sweep(net) == PropConst(CleanUp(net))

\* the assertions met on the way through Sweep
SweepAssertOk(net) == PropConstStartOk(CleanUp(net)) /\ PropConstAssertOk(Sweep(net))

(***************************************************************************)
(* Error metrics, deviation network and error miter (error.cc)             *)
(***************************************************************************)
RECURSIVE Log2Floor(_)
Log2Floor(n) == IF n <= 1 THEN 0 ELSE 1 + Log2Floor(n \div 2)

\* width of the reference error input of the deviation network
RefErrWidth(metrType, outWidth) ==
    IF metrType = "MAXED" THEN outWidth ELSE Log2Floor(outWidth) + 1

\* GenDevCompNet: the Verilog module, f = (err > ref_err); a and b are the
\* output words of the two networks, bit 0 first
DevCompNet(metrType, outWidth, a, b, ref_err) ==
    LET w == RefErrWidth(metrType, outWidth)
        err == IF metrType = "MAXED"
               THEN AbsDiff(BitsToInt(a), BitsToInt(b)) % Pow2(w)
               ELSE SumSeq([i \in 1 .. outWidth |-> Xor(a[i], b[i])]) % Pow2(w)
    IN  IF err > ref_err THEN 1 ELSE 0

\* a deviation network whose reference error input is tied to ones
EmbeddedRefErr_AllOnes(metrType, outWidth, errUppBound) ==
    Pow2(RefErrWidth(metrType, outWidth)) - 1

\* GenDevCompNetEmbedErrBound: ref_err[i] is tied to bit i of the bound
EmbeddedRefErr(metrType, outWidth, errUppBound) ==
    LET w == RefErrWidth(metrType, outWidth)
    IN  BitsToInt([i \in 1 .. w |-> Bit(errUppBound, i - 1)])

\* the assertion refErr == 0 that closes the embedding loop
EmbedErrBoundOk(metrType, outWidth, errUppBound) ==
    errUppBound \div Pow2(RefErrWidth(metrType, outWidth)) = 0

\* BuildErrMit: output i of the accurate network drives deviation input i,
\* output i of the approximate network drives deviation input i + nPo; the
\* inputs of the two networks are shared by position
ErrMitOut(acc, app, metrType, errUppBound, x) ==
    LET nPo == GetPoNum(acc)
        Dev(devIn) ==
            DevCompNet(metrType, nPo, SubSeq(devIn, 1, nPo), SubSeq(devIn, nPo + 1, 2 * nPo),
                       EmbeddedRefErr(metrType, nPo, errUppBound))
    IN  Dev(PoVals(acc, x) \o PoVals(app, x))

AllPatts(net) == 0 .. (Pow2(GetPiNum(net)) - 1)

\* the satisfying assignments of the miter CNF, restricted to the inputs
SatModels(acc, app, metrType, errUppBound) ==
    {x \in AllPatts(acc) : ErrMitOut(acc, app, metrType, errUppBound, x) = 1}

\* the solver returns one satisfying assignment; the smallest and the
\* largest stand for its choice
SolverModels(models) ==
    {x \in models : (\A y \in models : x <= y) \/ (\A y \in models : x >= y)}

\* a counterexample read out with the variable list reversed
CountExOf_Reversed(nPi, x) == [i \in 1 .. nPi |-> Bit(x, nPi - i)]

\* SolveSatAndGetCountEx: entry i of the counterexample is the model value
\* of the CNF variable of the i-th input
CountExOf(nPi, x) == [i \in 1 .. nPi |-> Bit(x, i - 1)]

(***************************************************************************)
(* Simulation patterns (simulator.cc)                                      *)
(***************************************************************************)
\* stand-in for the seeded generator behind GenInpUnif / GenInpUnifFast
RECURSIVE Lcg(_, _)
Lcg(seed, j) == IF j = 0 THEN seed % 16 ELSE (5 * Lcg(seed, j - 1) + 3) % 16

GenInpUnif(seed, nFrame, nPi) == [j \in 1 .. nFrame |-> Lcg(seed, j) % Pow2(nPi)]

\* Simulator::ReplInp: frame iPatt (0-based) takes the given input bits
ReplInp(patts, iPatt, piVals) == [patts EXCEPT ![iPatt + 1] = BitsToInt(piVals)]

\* outputs of every frame (LogicSim / UpdNodeAndPoPatts on the accurate side)
SimPos(net, patts) == [j \in 1 .. Len(patts) |-> PoVals(net, patts[j])]

(***************************************************************************)
(* Batch error estimator (error.cc)                                        *)
(***************************************************************************)
\* number of frames of the rough pass (1024 in the source, scaled down; the
\* code only compares it with the configured frame count)
ROUGH_SIM_FRAME == 2

\* a frame error that takes every output to change with the target
LacFrameErr_NoBoolDiff(appNet, lac, metrType, x, accPo) ==
    LET nodePatt == SopVal(lac.sop, [d \in 1 .. Len(lac.divs) |-> ObjVal(appNet, lac.divs[d], x)])
        nodeChange == Xor(nodePatt, ObjVal(appNet, lac.targId, x))
        pos == PoIds(appNet)
        Err(tempPos) ==
            IF metrType = "MAXED"
            THEN AbsDiff(BitsToInt(tempPos), BitsToInt(accPo))
            ELSE SumSeq([k \in 1 .. Len(pos) |-> Xor(tempPos[k], accPo[k])])
    IN  Err([k \in 1 .. Len(pos) |-> Xor(ObjVal(appNet, pos[k], x), nodeChange)])

\* error of one frame after the candidate is applied, computed from the
\* Boolean difference of the outputs with respect to the target
LacFrameErr(appNet, lac, metrType, x, accPo) ==
    LET nodePatt == SopVal(lac.sop, [d \in 1 .. Len(lac.divs) |-> ObjVal(appNet, lac.divs[d], x)])
        nodeChange == Xor(nodePatt, ObjVal(appNet, lac.targId, x))
        pos == PoIds(appNet)
        \* an output changes when the target changes and the output depends on it
        TempPo(cur, flipped) == Xor(cur, nodeChange * Xor(cur, flipped))
        Err(tempPos) ==
            IF metrType = "MAXED"
            THEN AbsDiff(BitsToInt(tempPos), BitsToInt(accPo))
            ELSE SumSeq([k \in 1 .. Len(pos) |-> Xor(tempPos[k], accPo[k])])
    IN  Err([k \in 1 .. Len(pos) |->
                TempPo(ObjVal(appNet, pos[k], x), ObjValFlip(appNet, pos[k], x, lac.targId))])

\* the running maximum over the frames, left as soon as it exceeds the bound
RECURSIVE MaxErrSim(_, _, _, _)
MaxErrSim(errs, iPatt, maxErrSim, errUppBound) ==
    IF iPatt > Len(errs) THEN maxErrSim
    ELSE LET m == Max2(maxErrSim, errs[iPatt])
         IN  IF m > errUppBound THEN m ELSE MaxErrSim(errs, iPatt + 1, m, errUppBound)

\* DoubleGreat / DoubleLess / DoubleEqual of my_util.hpp on the integral
\* values the estimator stores (EPSILON = 1e-8 is below their spacing)
DoubleGreat(a, b) == a - b >= 1
DoubleLess(a, b) == a - b <= -1
DoubleEqual(a, b) == a - b < 1 /\ b - a < 1

\* a removal that keeps every candidate
RemLargeErrLacs_None(lacs, errUppBound) == lacs

\* LACMan::RemLargeErrLacs
RemLargeErrLacs(lacs, errUppBound) == SelectSeq(lacs, LAMBDA l : ~DoubleGreat(l.err, errUppBound))

\* the scoring loop of BatchErrEst::PruneLacsWithSim: candidates whose target
\* is in the topological order get their error set
ScoreLacsWithSim(lacs, appNet, metrType, errUppBound, patts, accPos) ==
    LET topoNodes == SeqToSet(CalcTopoOrd(appNet))
        Score(lac) ==
            IF lac.targId \in topoNodes
            THEN [lac EXCEPT !.err =
                     MaxErrSim([j \in 1 .. Len(patts) |->
                                   LacFrameErr(appNet, lac, metrType, patts[j], accPos[j])],
                               1, 0, errUppBound)]
            ELSE lac
    IN  [i \in 1 .. Len(lacs) |-> Score(lacs[i])]

\* BatchErrEst::PruneLacsWithSim: score, then remove the large errors
PruneLacsWithSim(lacs, appNet, metrType, errUppBound, patts, accPos) ==
    RemLargeErrLacs(ScoreLacsWithSim(lacs, appNet, metrType, errUppBound, patts, accPos),
                    errUppBound)

\* the patterns and accurate outputs a pass over nFramePrune frames works on
PassPatts(accNet, appNet, seed, nFrame, nFramePrune, accPatts, accPoDat) ==
    IF nFramePrune = nFrame
    THEN [patts |-> accPatts, accPos |-> accPoDat]
    ELSE LET fresh == GenInpUnif(seed, nFramePrune, GetPiNum(appNet))
         IN  [patts |-> fresh, accPos |-> SimPos(accNet, fresh)]

\* BatchErrEst::CompLacErrsBySimAndPruneBadLacs: a pass over nFramePrune
\* frames reuses the accurate simulator when nFramePrune equals the
\* configured frame count and simulates fresh seeded patterns otherwise
PrunePass(lacs, accNet, appNet, metrType, errUppBound, seed, nFrame, nFramePrune, accPatts, accPoDat) ==
    LET On(p) == PruneLacsWithSim(lacs, appNet, metrType, errUppBound, p.patts, p.accPos)
    IN  On(PassPatts(accNet, appNet, seed, nFrame, nFramePrune, accPatts, accPoDat))

CompLacErrsBySimAndPruneBadLacs(lacs, accNet, appNet, metrType, errUppBound, seed, nFrame, accPatts, accPoDat) ==
    LET Fine(rough) ==
            IF ROUGH_SIM_FRAME < nFrame
            THEN PrunePass(rough, accNet, appNet, metrType, errUppBound, seed, nFrame,
                           nFrame, accPatts, accPoDat)
            ELSE rough
    IN  Fine(PrunePass(lacs, accNet, appNet, metrType, errUppBound, seed, nFrame,
                       ROUGH_SIM_FRAME, accPatts, accPoDat))

\* the input patterns the passes of CompLacErrsBySimAndPruneBadLacs work on:
\* those of the rough pass and, when there is one, those of the fine pass
EstPatts(accNet, appNet, seed, nFrame, accPatts, accPoDat) ==
    SeqToSet(PassPatts(accNet, appNet, seed, nFrame, ROUGH_SIM_FRAME, accPatts, accPoDat).patts)
    \cup (IF ROUGH_SIM_FRAME < nFrame
          THEN SeqToSet(PassPatts(accNet, appNet, seed, nFrame, nFrame, accPatts, accPoDat).patts)
          ELSE {})

\* every candidate with the error a pass stored in it, before the pruning
\* of that pass: the rough pass, then the fine pass over its survivors
ScoredLacs(lacs, accNet, appNet, metrType, errUppBound, seed, nFrame, accPatts, accPoDat) ==
    LET topoNodes == SeqToSet(CalcTopoOrd(appNet))
        Score(ls, p) == ScoreLacsWithSim(ls, appNet, metrType, errUppBound, p.patts, p.accPos)
        Pass(ls, nFramePrune) ==
            Score(ls, PassPatts(accNet, appNet, seed, nFrame, nFramePrune, accPatts, accPoDat))
        Both(s1) ==
            s1 \o (IF ROUGH_SIM_FRAME < nFrame
                   THEN Pass(RemLargeErrLacs(s1, errUppBound), nFrame)
                   ELSE <<>>)
    IN  SelectSeq(Both(Pass(lacs, ROUGH_SIM_FRAME)), LAMBDA l : l.targId \in topoNodes)

(***************************************************************************)
(* Ordering and filtering of the candidate list (lac.h, lac.cc)            *)
(***************************************************************************)
\* smaller error first, then larger size gain
Lac0BetterThanLac1(pLac0, pLac1) ==
    \/ DoubleLess(pLac0.err, pLac1.err)
    \/ DoubleEqual(pLac0.err, pLac1.err) /\ pLac0.sizeGain > pLac1.sizeGain

\* the orders std::sort may leave equivalent elements in: as they came, or
\* reversed
TieOrders == {"fwd", "rev"}

\* LACMan::SortAndKeepTopKLACs; tie selects the order of equivalent elements
SortAndKeepTopKLACs(pLacs, k, tie) ==
    LET n == Len(pLacs)
        Before(i, j) ==
            \/ Lac0BetterThanLac1(pLacs[i], pLacs[j])
            \/ /\ ~Lac0BetterThanLac1(pLacs[j], pLacs[i])
               /\ IF tie = "fwd" THEN i < j ELSE i > j
        pos == [i \in 1 .. n |-> 1 + Cardinality({j \in 1 .. n : j # i /\ Before(j, i)})]
        sorted == [p \in 1 .. n |-> pLacs[CHOOSE i \in 1 .. n : pos[i] = p]]
    IN  IF k < -1 THEN pLacs
        ELSE IF k >= n \/ k = -1 THEN sorted
        ELSE SubSeq(sorted, 1, k)

\* a removal that leaves the list as it is
RemLacsFromBlackList_Keep(pLacs, blackList) == pLacs

\* LACMan::RemLacsFromBlackList
RemLacsFromBlackList(pLacs, blackList) ==
    IF blackList = {} THEN pLacs
    ELSE SelectSeq(pLacs, LAMBDA l : ToStrShort(l) \notin blackList)

(***************************************************************************)
(* Accurate networks explored by the model                                 *)
(***************************************************************************)
RECURSIVE CreateObjs(_, _, _)
CreateObjs(net, k, n) == IF n = 0 THEN net ELSE CreateObjs(CreateObj(net, k, NoSop), k, n - 1)

RECURSIVE CreateNodes(_, _)
CreateNodes(net, nodes) ==
    IF nodes = <<>> THEN net
    ELSE CreateNodes(CreateObj(net, "node", Head(nodes).sop), Tail(nodes))

RECURSIVE ConnectPos(_, _, _)
ConnectPos(net, poId, drivers) ==
    IF drivers = <<>> THEN net
    ELSE ConnectPos(AddFanin(net, poId, Head(drivers)), poId + 1, Tail(drivers))

RECURSIVE ConnectNodes(_, _, _)
ConnectNodes(net, nodeId, nodes) ==
    IF nodes = <<>> THEN net
    ELSE ConnectNodes(AddFanins(net, nodeId, Head(nodes).fanins), nodeId + 1, Tail(nodes))

\* a network as the reader leaves it: inputs, outputs, then nodes; the
\* connections are made in ID order (Abc_NtkDup_KeepName)
MkNet(nPi, drivers, nodes) ==
    LET nPo == Len(drivers)
        n1 == CreateObjs(EmptyNet, "pi", nPi)
        n2 == CreateObjs(n1, "po", nPo)
        n3 == CreateNodes(n2, nodes)
        n4 == ConnectPos(n3, nPi, drivers)
    IN  ConnectNodes(n4, nPi + nPo, nodes)

Gate(fanins, sop) == [fanins |-> fanins, sop |-> sop]

\* half adder: sum and carry of inputs 0 and 1
NetHalfAdder == MkNet(2, <<4, 5>>, <<Gate(<<0, 1>>, SopXor), Gate(<<0, 1>>, SopAnd)>>)

\* an OR with don't-care cubes between a shared NAND and an AND, the NAND
\* also feeds an inverter on the low output
NetCancel ==
    MkNet(3, <<8, 7>>,
          <<Gate(<<0, 1>>, SopNand), Gate(<<2, 5>>, SopOr), Gate(<<6, 0>>, SopAnd),
            Gate(<<5>>, SopInv)>>)

\* a chain of three levels whose middle AND repeats its fanin's function
NetRedund ==
    MkNet(3, <<7, 6>>,
          <<Gate(<<0, 1>>, SopAnd), Gate(<<5, 0>>, SopAnd), Gate(<<6, 2>>, SopOr)>>)

\* an AND and an OR of the same inputs, the AND feeds a second OR
NetCross ==
    MkNet(2, <<6, 5>>,
          <<Gate(<<0, 1>>, SopAnd), Gate(<<0, 1>>, SopOr), Gate(<<4, 0>>, SopOr)>>)

AccNets == {NetHalfAdder, NetCancel, NetRedund}

METR_TYPES == {"MAXED", "MAXHD"}
Seeds == {0, 1}
NFrames == {ROUGH_SIM_FRAME - 1, ROUGH_SIM_FRAME, ROUGH_SIM_FRAME + 1}
\* largest error bound explored
MaxErrUppBound == 2

\* ALSOpt / ALSMan constructors: the bound is positive, below the number of
\* outputs under MAXHD, and fits the reference error input
Options(net) ==
    {o \in [metrType : METR_TYPES, errUppBound : 0 .. MaxErrUppBound, nFrame : NFrames,
            seed : Seeds, flow : {"v2", "fast"}] :
        /\ o.metrType = "MAXHD" => o.errUppBound < GetPoNum(net)
        /\ EmbedErrBoundOk(o.metrType, GetPoNum(net), o.errUppBound)
        /\ o.flow = "fast" => o.metrType = "MAXHD"}

\* the phases of a flow: candidate type, inclConst, fSimplify
PhasesOf(flow) ==
    IF flow = "v2"
    THEN <<[lacType |-> "SASIMI", inclConst |-> TRUE, fSimplify |-> FALSE]>>
    ELSE <<[lacType |-> "CONSTANT", inclConst |-> FALSE, fSimplify |-> TRUE],
           [lacType |-> "SASIMI", inclConst |-> FALSE, fSimplify |-> TRUE]>>

\* Abc_NtkDup behind NetMan::Comm: the objects are renumbered without gaps,
\* inputs and outputs first; the resynthesis script itself is kept as the
\* identity on the structure
Comm(net) ==
    LET Dup(live) ==
            LET n == Len(live)
                newId(i) == (CHOOSE p \in 1 .. n : live[p] = i) - 1
                Map(s) == [k \in 1 .. Len(s) |-> newId(s[k])]
            IN  [kind |-> [p \in 0 .. (n - 1) |-> net.kind[live[p + 1]]],
                 fanins |-> [p \in 0 .. (n - 1) |-> Map(net.fanins[live[p + 1]])],
                 fanouts |-> [p \in 0 .. (n - 1) |-> Map(net.fanouts[live[p + 1]])],
                 sop |-> [p \in 0 .. (n - 1) |-> net.sop[live[p + 1]]],
                 idMaxPlus1 |-> n]
    IN  Dup(SortedSeq({i \in Ids(net) : net.kind[i] = "pi"})
            \o SortedSeq({i \in Ids(net) : net.kind[i] = "po"})
            \o SortedSeq({i \in Ids(net) : net.kind[i] = "node"}))

(***************************************************************************)
(* State of one session                                                    *)
(***************************************************************************)
VARIABLES
    accNet,            \* the accurate network
    opt,               \* ALSOpt: metrType, errUppBound, nFrame, seed and the flow
    appNet,            \* the approximate network under edit
    accPatts,          \* input patterns of the accurate simulator pAccSmlt
    accPoDat,          \* output patterns of pAccSmlt, one output word per frame
    pc,                \* position in Run_* / SimplifyWithSingleLac / ApplyMultValidLacs
    phases,            \* calls of SimplifyWithSingleLac still to be made
    phase,             \* arguments of the current call
    round,             \* round counter shared by the phases
    oldSize, oldDepth, \* size and depth recorded by SimplifyWithSingleLac
    lacBlackList,      \* signatures that made the verifier give up, per call
    countExNum,        \* static cursor into the patterns of pAccSmlt
    lacs,              \* candidates of the pass that are not visited yet
    nVisited,          \* candidates of the pass visited so far (iLacId)
    curLac,            \* the candidate of the last visit (pLac)
    replTrace,         \* trace of the last temporary replacement
    frozTargNodes,     \* targets committed in this pass
    existValidLac,     \* some candidate was committed in this pass
    counterEx,         \* last counterexample returned by the verifier
    counterExPiPatts,  \* per input, the counterexample bits of this pass
    nUndef,            \* verifier calls that ran out of budget so far
    lastStep,          \* outcome of the last candidate visit
    trialBase,         \* the network before the last temporary application
    trialNet,          \* the network the verifier was last called on
    passCommits,       \* targets committed in this pass, in order
    everBlack,         \* signatures blacklisted at any time of the session
    estLacs,           \* candidates as scored by the estimator in this round
    kTop, sorted1,     \* argument and first result of SortAndKeepTopKLACs
    smlt,              \* ErrMan: the patterns of pSmlt0 and pSmlt1, <<>> before LogicSim
    maxErr,            \* ErrMan: the value ComputeMaxErr returned, -1 before the call
    netType,           \* representation of the accurate and the approximate network
    ioNames,           \* ErrMan: input and output names of net0 and net1
    nSolve,            \* calls of the SAT solver made so far
    maxCandResub,      \* the candidate budget handed to GenSasimiLACs
    iBit, drivId,      \* Run_FastFlow: the output bit of the loop and its driver
    constIds,          \* Run_FastFlow: the constant-0 and the constant-1 node
    maxErr0, maxErr1,  \* Run_FastFlow: the errors of the two trials of the bit
    gainRoot, gainDivs,\* GetSizeGain: the root and the divisors of the last call
    nSizeGain,         \* GetSizeGain: the value the last call returned, -1 before it
    nSize,             \* the fanout counters (vFanouts.nSize) the last call left
    appDat, tempDat,   \* Simulator appSmlt: the committed table dat and the table tempDat
    bdIdx,             \* CalcBoolDiff: the index of the last call, -1 before it
    bdPosWrtNode       \* CalcBoolDiff: the vectors the last call returned

vars == <<accNet, opt, appNet, accPatts, accPoDat, pc, phases, phase, round, oldSize,
          oldDepth, lacBlackList, countExNum, lacs, nVisited, curLac, replTrace,
          frozTargNodes, existValidLac, counterEx, counterExPiPatts, nUndef, lastStep,
          trialBase, trialNet, passCommits, everBlack, estLacs, kTop, sorted1, smlt,
          maxErr, netType, ioNames, nSolve, maxCandResub, iBit, drivId, constIds,
          maxErr0, maxErr1, gainRoot, gainDivs, nSizeGain, nSize,
          appDat, tempDat, bdIdx, bdPosWrtNode>>

\* the names of the inputs and outputs of a network as its reader gives
\* them, by position; net0 and net1 of a copy carry the same names
SameNames(net) ==
    [pi0 |-> [i \in 1 .. GetPiNum(net) |-> i], po0 |-> [i \in 1 .. GetPoNum(net) |-> i],
     pi1 |-> [i \in 1 .. GetPiNum(net) |-> i], po1 |-> [i \in 1 .. GetPoNum(net) |-> i]]

NoPhase == [lacType |-> "NONE", inclConst |-> FALSE, fSimplify |-> FALSE]
NoLac == LAC(-1, 0, <<>>, NoSop)

\* the fields ALSMan's constructor does not depend on
InitRest ==
    /\ phases = <<>>
    /\ phase = NoPhase
    /\ round = 1
    /\ oldSize = 0
    /\ oldDepth = 0
    /\ lacBlackList = {}
    /\ countExNum = 0
    /\ lacs = <<>>
    /\ nVisited = 0
    /\ curLac = NoLac
    /\ replTrace = <<>>
    /\ frozTargNodes = {}
    /\ existValidLac = FALSE
    /\ counterEx = <<>>
    /\ nUndef = 0
    /\ lastStep = "none"
    /\ passCommits = <<>>
    /\ everBlack = {}
    /\ estLacs = <<>>
    /\ kTop = 0
    /\ sorted1 = <<>>
    /\ smlt = <<>>
    /\ maxErr = -1
    /\ netType = [acc |-> "SOP", app |-> "SOP"]
    /\ ioNames = SameNames(accNet)
    /\ maxCandResub = maxCandLacs
    /\ iBit = 0
    /\ drivId = -1
    /\ constIds = <<-1, -1>>
    /\ maxErr0 = -1
    /\ maxErr1 = -1
    /\ gainRoot = -1
    /\ gainDivs = <<>>
    /\ nSizeGain = -1
    /\ nSize = <<>>
    /\ appDat = <<>>
    /\ tempDat = <<>>
    /\ bdIdx = -1
    /\ bdPosWrtNode = <<>>
    /\ nSolve = 0

\* the state after ALSMan is constructed: pAccSmlt holds seeded patterns and
\* has been simulated
Init ==
    /\ accNet \in AccNets
    /\ opt \in Options(accNet)
    /\ appNet = accNet
    /\ accPatts = GenInpUnif(opt.seed, opt.nFrame, GetPiNum(accNet))
    /\ accPoDat = SimPos(accNet, accPatts)
    /\ pc = "run"
    /\ counterExPiPatts = [i \in 1 .. GetPiNum(accNet) |-> <<>>]
    /\ trialBase = accNet
    /\ trialNet = accNet
    /\ InitRest

passVars == <<lacs, nVisited, curLac, replTrace, frozTargNodes, existValidLac, counterEx,
              counterExPiPatts, lastStep, trialBase, trialNet, passCommits>>
sortVars == <<kTop, sorted1>>
errVars == <<smlt, maxErr>>
confVars == <<netType, ioNames, maxCandResub>>
truncVars == <<iBit, drivId, constIds, maxErr0, maxErr1>>
gainVars == <<gainRoot, gainDivs, nSizeGain, nSize>>
bdVars == <<appDat, tempDat, bdIdx, bdPosWrtNode>>

\* ALSMan::Run_v2 up to the call of SimplifyWithSingleLac
Run_v2 ==
    /\ pc = "run"
    /\ opt.flow = "v2"
    /\ appNet' = accNet
    /\ IF netType.acc # "SOP"
       THEN pc' = "abort" /\ UNCHANGED phases
       ELSE pc' = "enter" /\ phases' = PhasesOf("v2")
    /\ UNCHANGED <<accNet, opt, accPatts, accPoDat, phase, round, oldSize, oldDepth,
                   lacBlackList, countExNum, nUndef, everBlack, estLacs>>
    /\ UNCHANGED passVars
    /\ UNCHANGED sortVars
    /\ UNCHANGED errVars
    /\ UNCHANGED confVars
    /\ UNCHANGED gainVars
    /\ UNCHANGED bdVars
    /\ UNCHANGED truncVars
    /\ UNCHANGED nSolve

\* NetMan::GetPoDrivId
GetPoDrivId(net, i) == net.fanins[PoIds(net)[i + 1]][1]

\* ALSMan::Run_FastFlow after the truncation loop: Sweep, then the two calls
\* of SimplifyWithSingleLac
TruncLoopExit(net) ==
    /\ appNet' = Sweep(net)
    /\ pc' = IF SweepAssertOk(net) THEN "enter" ELSE "abort"
    /\ phases' = PhasesOf("fast")

\* the head of the truncation loop of Run_FastFlow
TruncLoopHead(net, i) ==
    /\ iBit' = i
    /\ IF i < GetPoNum(net)
       THEN /\ appNet' = net
            /\ drivId' = GetPoDrivId(net, i)
            /\ pc' = "try0"
            /\ UNCHANGED phases
       ELSE /\ TruncLoopExit(net)
            /\ UNCHANGED drivId

\* ALSMan::Run_FastFlow up to the truncation loop, which is entered under
\* MAXED only
Run_FastFlow ==
    /\ pc = "run"
    /\ opt.flow = "fast"
    /\ IF netType.acc # "SOP"
       THEN pc' = "abort" /\ UNCHANGED <<appNet, phases, replTrace, iBit, constIds, drivId>>
       ELSE \E c \in {CreateConstsIfNotExist(accNet)} :
               \E merged \in {MergeConst(c.net)} :
                  /\ constIds' = <<c.first, c.second>>
                  /\ replTrace' = <<>>
                  /\ IF opt.metrType = "MAXED"
                     THEN TruncLoopHead(merged, 0)
                     ELSE TruncLoopExit(merged) /\ UNCHANGED <<iBit, drivId>>
    /\ UNCHANGED <<accNet, opt, accPatts, accPoDat, phase, round, oldSize, oldDepth,
                   lacBlackList, countExNum, nUndef, everBlack, estLacs>>
    /\ UNCHANGED <<lacs, nVisited, curLac, frozTargNodes, existValidLac, counterEx,
                   counterExPiPatts, lastStep, trialBase, trialNet, passCommits>>
    /\ UNCHANGED sortVars
    /\ UNCHANGED errVars
    /\ UNCHANGED confVars
    /\ UNCHANGED gainVars
    /\ UNCHANGED bdVars
    /\ UNCHANGED <<maxErr0, maxErr1>>
    /\ UNCHANGED nSolve

\* the assertions of NetMan::PatchFanin
PatchFaninOk(net, obj, iFanin, old, new) ==
    /\ old # new
    /\ iFanin + 1 \in 1 .. Len(net.fanins[obj])
    /\ net.fanins[obj][iFanin + 1] = old

\* the assertions the patches of Recov_v2 pass through, in the order of the trace
RECURSIVE RecovPatchOk(_, _, _, _)
RecovPatchOk(net, trace, i, patchFaninEnd) ==
    IF 2 * i + 2 > patchFaninEnd THEN TRUE
    ELSE /\ PatchFaninOk(net, trace[2 * i + 1], trace[2 * i + 2], trace[2], trace[1])
         /\ RecovPatchOk(PatchFanin(net, trace[2 * i + 1], trace[2 * i + 2],
                                    trace[2], trace[1]),
                         trace, i + 1, patchFaninEnd)

\* the assertions of NetMan::Recov_v2: more than two entries, an even
\* number of them before the separator, and those of each patch
Recov_v2Ok(net, trace) ==
    LET sep == Vec_IntFindFrom(trace, -1, 1)
        patchFaninEnd == IF sep = 0 THEN Len(trace) ELSE sep - 1
    IN  /\ Len(trace) > 2
        /\ patchFaninEnd % 2 = 0
        /\ RecovPatchOk(net, trace, 1, patchFaninEnd)

\* entry of SimplifyWithSingleLac: return at once under a zero bound, else a
\* fresh blacklist and the current size and depth
SimplifyWithSingleLac_Enter ==
    /\ pc = "enter"
    /\ phases # <<>>
    /\ phase' = Head(phases)
    /\ phases' = Tail(phases)
    /\ IF opt.errUppBound = 0
       THEN /\ pc' = "enter"
            /\ UNCHANGED <<lacBlackList, oldSize, oldDepth>>
       ELSE /\ pc' = "round"
            /\ lacBlackList' = {}
            /\ oldSize' = GetArea(appNet)
            /\ oldDepth' = GetDelay(appNet)
    /\ UNCHANGED <<accNet, opt, appNet, accPatts, accPoDat, round, countExNum, nUndef,
                   everBlack, estLacs>>
    /\ UNCHANGED passVars
    /\ UNCHANGED sortVars
    /\ UNCHANGED errVars
    /\ UNCHANGED confVars
    /\ UNCHANGED gainVars
    /\ UNCHANGED bdVars
    /\ UNCHANGED truncVars
    /\ UNCHANGED nSolve

\* the flow is over when no call is left
Run_Finish ==
    /\ pc = "enter"
    /\ phases = <<>>
    /\ pc' = "done"
    /\ UNCHANGED <<accNet, opt, appNet, accPatts, accPoDat, phases, phase, round, oldSize,
                   oldDepth, lacBlackList, countExNum, nUndef, everBlack, estLacs>>
    /\ UNCHANGED passVars
    /\ UNCHANGED sortVars
    /\ UNCHANGED errVars
    /\ UNCHANGED confVars
    /\ UNCHANGED gainVars
    /\ UNCHANGED bdVars
    /\ UNCHANGED truncVars
    /\ UNCHANGED nSolve

TOP_K_LAC == 100

GenLacs(net, ph) ==
    IF ph.lacType = "CONSTANT" THEN GenConstLACs(net)
    ELSE GenSasimiLACs(net, maxCandLacs, ph.inclConst)

\* head of a round: generate, drop blacklisted candidates, estimate and
\* prune, sort and keep the best; then the locals of ApplyMultValidLacs
Round_Generate ==
    /\ pc = "round"
    /\ round <= MaxRound
    /\ \E gen \in {RemLacsFromBlackList(GenLacs(appNet, phase), lacBlackList)} :
          /\ estLacs' = ScoredLacs(gen, accNet, appNet, opt.metrType, opt.errUppBound,
                                   opt.seed, opt.nFrame, accPatts, accPoDat)
          /\ \E est \in {CompLacErrsBySimAndPruneBadLacs(gen, accNet, appNet, opt.metrType,
                             opt.errUppBound, opt.seed, opt.nFrame, accPatts, accPoDat)} :
                IF est = <<>>
                THEN /\ pc' = "exit"
                     /\ lacs' = <<>>
                ELSE /\ pc' = "apply"
                     /\ \E tie \in TieOrders : lacs' = SortAndKeepTopKLACs(est, TOP_K_LAC, tie)
    /\ nVisited' = 0
    /\ curLac' = NoLac
    /\ replTrace' = <<>>
    /\ frozTargNodes' = {}
    /\ existValidLac' = FALSE
    /\ counterEx' = <<>>
    /\ counterExPiPatts' = [i \in 1 .. GetPiNum(accNet) |-> <<>>]
    /\ lastStep' = "none"
    /\ passCommits' = <<>>
    /\ UNCHANGED <<accNet, opt, appNet, accPatts, accPoDat, phases, phase, round, oldSize,
                   oldDepth, lacBlackList, countExNum, nUndef, trialBase, trialNet,
                   everBlack>>
    /\ UNCHANGED sortVars
    /\ UNCHANGED errVars
    /\ UNCHANGED confVars
    /\ UNCHANGED gainVars
    /\ UNCHANGED bdVars
    /\ UNCHANGED truncVars
    /\ UNCHANGED nSolve


(***************************************************************************)
(* ApplyMultValidLacs: one candidate visit is a trial step and, when the   *)
(* trial network is acyclic, a verification step                           *)
(***************************************************************************)
\* a frozen test that never skips
IsFrozen_Never(froz, targId) == FALSE

\* the frozen test at the head of the loop body
IsFrozen(froz, targId) == targId \in froz

\* the j-th counterexample of the pass as an input pattern
CexPatt(piPatts, j) == BitsToInt([i \in 1 .. Len(piPatts) |-> piPatts[i][j]])

\* a fast checking that lets every trial through
FastCheckFails_Never(acc, app, metrType, errUppBound, piPatts) == FALSE

\* fast checking: the miter output over the counterexamples of the pass
FastCheckFails(acc, app, metrType, errUppBound, piPatts) ==
    \E j \in 1 .. Len(piPatts[1]) :
        ErrMitOut(acc, app, metrType, errUppBound, CexPatt(piPatts, j)) = 1

\* skip of a frozen or dangling target, or temporary application followed
\* by the cycle test
ApplyMult_Trial ==
    /\ pc = "apply"
    /\ lacs # <<>>
    /\ curLac' = Head(lacs)
    /\ lacs' = Tail(lacs)
    /\ nVisited' = nVisited + 1
    /\ IF IsFrozen(frozTargNodes, Head(lacs).targId)
       THEN /\ lastStep' = "frozen"
            /\ UNCHANGED <<appNet, replTrace, trialBase, pc>>
       ELSE IF GetFanoutNum(appNet, Head(lacs).targId) = 0
       THEN /\ lastStep' = "dangling"
            /\ UNCHANGED <<appNet, replTrace, trialBase, pc>>
       ELSE \E r \in {TempApplyLac(appNet, Head(lacs))} :
               /\ trialBase' = appNet
               /\ replTrace' = r.replTrace
               /\ IF ~IsAcyclic(r.net)
                  THEN /\ appNet' = RecovNet(r.net, <<r.replTrace>>)
                       /\ lastStep' = "cyclic"
                       /\ pc' = "apply"
                  ELSE /\ appNet' = r.net
                       /\ lastStep' = "trial"
                       /\ pc' = "verify"
    /\ UNCHANGED <<accNet, opt, accPatts, accPoDat, phases, phase, round, oldSize, oldDepth,
                   lacBlackList, countExNum, frozTargNodes, existValidLac, counterEx,
                   counterExPiPatts, nUndef, trialNet, passCommits, everBlack, estLacs>>
    /\ UNCHANGED sortVars
    /\ UNCHANGED errVars
    /\ UNCHANGED confVars
    /\ UNCHANGED gainVars
    /\ UNCHANGED bdVars
    /\ UNCHANGED truncVars
    /\ UNCHANGED nSolve

\* the verifier proved the bound: the candidate stays, its target is frozen
Verify_Unsat ==
    /\ existValidLac' = TRUE
    /\ frozTargNodes' = frozTargNodes \cup {curLac.targId}
    /\ passCommits' = Append(passCommits, curLac.targId)
    /\ lastStep' = "unsat"
    /\ UNCHANGED <<appNet, accPatts, countExNum, counterEx, counterExPiPatts, lacBlackList,
                   nUndef, everBlack>>

\* a cursor that runs on past the last frame
NextCountExNum_NoWrap(n, nFrame) == n + 1

\* ++countExNum, back to 0 when it reaches nFrame
NextCountExNum(n, nFrame) == IF n + 1 >= nFrame THEN 0 ELSE n + 1

\* the verifier found the assignment x: it replaces a frame of pAccSmlt and
\* joins the counterexamples of the pass, the trial is undone
Verify_Sat(x) ==
    LET nPi == GetPiNum(accNet)
        cex == CountExOf(nPi, x)
    IN  /\ counterEx' = cex
        /\ accPatts' = ReplInp(accPatts, countExNum, cex)
        /\ countExNum' = NextCountExNum(countExNum, opt.nFrame)
        /\ counterExPiPatts' = [iPi \in 1 .. nPi |-> Append(counterExPiPatts[iPi], cex[iPi])]
        /\ appNet' = RecovNet(appNet, <<replTrace>>)
        /\ lastStep' = "sat"
        /\ UNCHANGED <<existValidLac, frozTargNodes, passCommits, lacBlackList, nUndef,
                       everBlack>>

\* the verifier gave up: the signature is blacklisted, the trial is undone
Verify_Undef ==
    /\ lacBlackList' = lacBlackList \cup {ToStrShort(curLac)}
    /\ everBlack' = everBlack \cup {ToStrShort(curLac)}
    /\ nUndef' = nUndef + 1
    /\ appNet' = RecovNet(appNet, <<replTrace>>)
    /\ lastStep' = "undef"
    /\ UNCHANGED <<existValidLac, frozTargNodes, passCommits, accPatts, countExNum,
                   counterEx, counterExPiPatts>>

\* fast checking on the counterexamples of the pass, then the SAT call with
\* its three outcomes
ApplyMult_Verify ==
    /\ pc = "verify"
    /\ pc' = "apply"
    /\ trialNet' = appNet
    /\ IF Len(counterExPiPatts[1]) > 0
          /\ FastCheckFails(accNet, appNet, opt.metrType, opt.errUppBound, counterExPiPatts)
       THEN /\ appNet' = RecovNet(appNet, <<replTrace>>)
            /\ lastStep' = "fast"
            /\ UNCHANGED <<existValidLac, frozTargNodes, passCommits, accPatts, countExNum,
                           counterEx, counterExPiPatts, lacBlackList, nUndef, everBlack,
                           nSolve>>
       ELSE \E models \in {SatModels(accNet, appNet, opt.metrType, opt.errUppBound)} :
               /\ nSolve' = nSolve + 1
               /\ \/ models = {} /\ Verify_Unsat
                  \/ \E x \in SolverModels(models) : Verify_Sat(x)
                  \/ nUndef < MaxUndef /\ Verify_Undef
    /\ UNCHANGED <<accNet, opt, accPoDat, phases, phase, round, oldSize, oldDepth, lacs,
                   nVisited, curLac, replTrace, trialBase, estLacs>>
    /\ UNCHANGED sortVars
    /\ UNCHANGED errVars
    /\ UNCHANGED confVars
    /\ UNCHANGED gainVars
    /\ UNCHANGED bdVars
    /\ UNCHANGED truncVars

\* an end of the pass that leaves the patterns of pAccSmlt as they are
ApplyMult_End_NoResim ==
    /\ pc = "apply"
    /\ lacs = <<>>
    /\ accPoDat' = accPoDat
    /\ appNet' = Sweep(appNet)
    /\ pc' = IF ~SweepAssertOk(appNet) THEN "abort"
             ELSE IF existValidLac THEN "post" ELSE "exit"
    /\ UNCHANGED <<accNet, opt, accPatts, phases, phase, round, oldSize, oldDepth,
                   lacBlackList, countExNum, nUndef, everBlack, estLacs>>
    /\ UNCHANGED passVars
    /\ UNCHANGED sortVars
    /\ UNCHANGED errVars
    /\ UNCHANGED confVars
    /\ UNCHANGED gainVars
    /\ UNCHANGED bdVars
    /\ UNCHANGED truncVars
    /\ UNCHANGED nSolve

\* after the last candidate: pAccSmlt is simulated again when the pass
\* recorded a counterexample, the network is swept
ApplyMult_End ==
    /\ pc = "apply"
    /\ lacs = <<>>
    /\ accPoDat' = IF Len(counterExPiPatts[1]) > 0 THEN SimPos(accNet, accPatts)
                   ELSE accPoDat
    /\ appNet' = Sweep(appNet)
    /\ pc' = IF ~SweepAssertOk(appNet) THEN "abort"
             ELSE IF existValidLac THEN "post" ELSE "exit"
    /\ UNCHANGED <<accNet, opt, accPatts, phases, phase, round, oldSize, oldDepth,
                   lacBlackList, countExNum, nUndef, everBlack, estLacs>>
    /\ UNCHANGED passVars
    /\ UNCHANGED sortVars
    /\ UNCHANGED errVars
    /\ UNCHANGED confVars
    /\ UNCHANGED gainVars
    /\ UNCHANGED bdVars
    /\ UNCHANGED truncVars
    /\ UNCHANGED nSolve

\* a post processing without the early stop
Round_PostProc_NoEarlyStop ==
    /\ pc = "post"
    /\ \E size \in {GetArea(appNet)}, depth \in {GetDelay(appNet)} :
          IF ~(size < oldSize \/ (size = oldSize /\ depth <= oldDepth))
          THEN /\ pc' = "abort"
               /\ UNCHANGED <<oldSize, oldDepth, round>>
          ELSE /\ pc' = "round"
               /\ oldSize' = size
               /\ oldDepth' = depth
               /\ round' = round + 1
    /\ UNCHANGED <<accNet, opt, appNet, accPatts, accPoDat, phases, phase, lacBlackList,
                   countExNum, nUndef, everBlack, estLacs>>
    /\ UNCHANGED passVars
    /\ UNCHANGED sortVars
    /\ UNCHANGED errVars
    /\ UNCHANGED confVars
    /\ UNCHANGED gainVars
    /\ UNCHANGED bdVars
    /\ UNCHANGED truncVars
    /\ UNCHANGED nSolve

\* post processing of a round with a commit: the assertion on size and
\* depth, the early stop, the next round
Round_PostProc ==
    /\ pc = "post"
    /\ \E size \in {GetArea(appNet)}, depth \in {GetDelay(appNet)} :
          IF ~(size < oldSize \/ (size = oldSize /\ depth <= oldDepth))
          THEN /\ pc' = "abort"
               /\ UNCHANGED <<oldSize, oldDepth, round>>
          ELSE IF size = oldSize /\ depth = oldDepth
          THEN /\ pc' = "exit"
               /\ UNCHANGED <<oldSize, oldDepth, round>>
          ELSE /\ pc' = "round"
               /\ oldSize' = size
               /\ oldDepth' = depth
               /\ round' = round + 1
    /\ UNCHANGED <<accNet, opt, appNet, accPatts, accPoDat, phases, phase, lacBlackList,
                   countExNum, nUndef, everBlack, estLacs>>
    /\ UNCHANGED passVars
    /\ UNCHANGED sortVars
    /\ UNCHANGED errVars
    /\ UNCHANGED confVars
    /\ UNCHANGED gainVars
    /\ UNCHANGED bdVars
    /\ UNCHANGED truncVars
    /\ UNCHANGED nSolve

\* leaving SimplifyWithSingleLac: the final logic synthesis when asked for
SimplifyWithSingleLac_Exit ==
    /\ pc = "exit"
    /\ appNet' = IF phase.fSimplify THEN Comm(appNet) ELSE appNet
    /\ pc' = "enter"
    /\ UNCHANGED <<accNet, opt, accPatts, accPoDat, phases, phase, round, oldSize, oldDepth,
                   lacBlackList, countExNum, nUndef, everBlack, estLacs>>
    /\ UNCHANGED passVars
    /\ UNCHANGED sortVars
    /\ UNCHANGED errVars
    /\ UNCHANGED confVars
    /\ UNCHANGED gainVars
    /\ UNCHANGED bdVars
    /\ UNCHANGED truncVars
    /\ UNCHANGED nSolve

Next ==
    \/ Run_v2
    \/ Run_FastFlow
    \/ SimplifyWithSingleLac_Enter
    \/ Round_Generate
    \/ ApplyMult_Trial
    \/ ApplyMult_Verify
    \/ ApplyMult_End
    \/ Round_PostProc
    \/ SimplifyWithSingleLac_Exit
    \/ Run_Finish

Spec == Init /\ [][Next]_vars

\* the states in which the flow has a statement left to execute: Next is
\* enabled in exactly these states, and every step of Next changes pc or lacs
NextEnabled ==
    /\ pc \notin {"done", "abort"}
    /\ pc = "round" => round <= MaxRound

\* the flow is one thread of control, so a statement that can be executed is
\* executed: weak fairness of Next, WF_vars(Next), with ENABLED <<Next>>_vars
\* written out as NextEnabled
SpecFair == Init /\ [][Next]_vars /\ ([]<>(~NextEnabled) \/ []<><<Next>>_vars)


(***************************************************************************)
(* ApplyMultValidLacs on any candidate list: the list is supplied one      *)
(* candidate at a time, drawn from the rewrites of the network's objects   *)
(***************************************************************************)
MaxCands == 2

\* the transitive fanout of an object, the object included
Tfo(net, id) == {v \in Ids(net) : IsObj(net, v) /\ id \in TfiClosure(net, {v})}

\* what the generators offer for a node: the two constants, and a buffer and
\* an inverter of every signal outside the transitive fanout of the node
CandPool(net) ==
    LET targs == {t \in Ids(net) : IsNode(net, t) /\ ~IsConst(net, t)}
        divs(t) == {v \in Ids(net) : IsObj(net, v) /\ ~IsObjPo(net, v)} \ Tfo(net, t)
    IN  UNION {{LAC(t, 0, <<>>, SopConst0), LAC(t, 0, <<>>, SopConst1)}
               \cup {LAC(t, 0, <<v>>, f) : v \in divs(t), f \in {SopBuf, SopInv}} :
               t \in targs}

InitApply ==
    /\ accNet = NetCross
    /\ opt \in {o \in Options(accNet) : o.flow = "v2" /\ o.seed = 0 /\ o.errUppBound > 0
                   /\ o.nFrame = ROUGH_SIM_FRAME}
    /\ appNet = accNet
    /\ accPatts = GenInpUnif(opt.seed, opt.nFrame, GetPiNum(accNet))
    /\ accPoDat = SimPos(accNet, accPatts)
    /\ pc = "apply"
    /\ counterExPiPatts = [i \in 1 .. GetPiNum(accNet) |-> <<>>]
    /\ trialBase = accNet
    /\ trialNet = accNet
    /\ InitRest

\* the caller's list yields its next candidate
Apply_Feed ==
    /\ pc = "apply"
    /\ lacs = <<>>
    /\ nVisited < MaxCands
    /\ \E lac \in CandPool(accNet) : lacs' = <<lac>>
    /\ UNCHANGED <<accNet, opt, appNet, accPatts, accPoDat, pc, phases, phase, round,
                   oldSize, oldDepth, lacBlackList, countExNum, nVisited, curLac, replTrace,
                   frozTargNodes, existValidLac, counterEx, counterExPiPatts, nUndef,
                   lastStep, trialBase, trialNet, passCommits, everBlack, estLacs>>
    /\ UNCHANGED sortVars
    /\ UNCHANGED errVars
    /\ UNCHANGED confVars
    /\ UNCHANGED gainVars
    /\ UNCHANGED bdVars
    /\ UNCHANGED truncVars
    /\ UNCHANGED nSolve

NextApply ==
    \/ Apply_Feed
    \/ ApplyMult_Trial
    \/ ApplyMult_Verify
    \/ ApplyMult_End

SpecApply == InitApply /\ [][NextApply]_vars

(***************************************************************************)
(* SortAndKeepTopKLACs called twice on a candidate list                    *)
(***************************************************************************)
MaxSortLen == 3
MaxK == 3

\* candidates over two targets with errors and size gains of 0 and 1
SortCands == {[LAC(t, g, <<>>, SopConst0) EXCEPT !.err = e] :
                 t \in {4, 5}, g \in {0, 1}, e \in {0, 1}}

SortLists == UNION {[1 .. n -> SortCands] : n \in 0 .. MaxSortLen}

InitSort ==
    /\ accNet = NetHalfAdder
    /\ opt \in {o \in Options(accNet) : o.flow = "v2" /\ o.seed = 0 /\ o.errUppBound = 1
                   /\ o.nFrame = ROUGH_SIM_FRAME /\ o.metrType = "MAXED"}
    /\ appNet = accNet
    /\ accPatts = GenInpUnif(opt.seed, opt.nFrame, GetPiNum(accNet))
    /\ accPoDat = SimPos(accNet, accPatts)
    /\ pc = "sort"
    /\ counterExPiPatts = [i \in 1 .. GetPiNum(accNet) |-> <<>>]
    /\ trialBase = accNet
    /\ trialNet = accNet
    /\ phases = <<>>
    /\ phase = NoPhase
    /\ round = 1
    /\ oldSize = 0
    /\ oldDepth = 0
    /\ lacBlackList = {}
    /\ countExNum = 0
    /\ lacs \in SortLists
    /\ nVisited = 0
    /\ curLac = NoLac
    /\ replTrace = <<>>
    /\ frozTargNodes = {}
    /\ existValidLac = FALSE
    /\ counterEx = <<>>
    /\ nUndef = 0
    /\ lastStep = "none"
    /\ passCommits = <<>>
    /\ everBlack = {}
    /\ estLacs = lacs
    /\ kTop \in 0 .. MaxK
    /\ sorted1 = <<>>
    /\ smlt = <<>>
    /\ maxErr = -1
    /\ netType = [acc |-> "SOP", app |-> "SOP"]
    /\ ioNames = SameNames(accNet)
    /\ maxCandResub = maxCandLacs
    /\ iBit = 0
    /\ drivId = -1
    /\ constIds = <<-1, -1>>
    /\ maxErr0 = -1
    /\ maxErr1 = -1
    /\ gainRoot = -1
    /\ gainDivs = <<>>
    /\ nSizeGain = -1
    /\ nSize = <<>>
    /\ appDat = <<>>
    /\ tempDat = <<>>
    /\ bdIdx = -1
    /\ bdPosWrtNode = <<>>
    /\ nSolve = 0

nonSortVars == <<accNet, opt, appNet, accPatts, accPoDat, phases, phase, round, oldSize,
                 oldDepth, lacBlackList, countExNum, nVisited, curLac, replTrace,
                 frozTargNodes, existValidLac, counterEx, counterExPiPatts, nUndef, lastStep,
                 trialBase, trialNet, passCommits, everBlack, estLacs, smlt, maxErr,
                 netType, ioNames, nSolve, maxCandResub, iBit, drivId,
                 constIds, maxErr0, maxErr1, gainRoot, gainDivs, nSizeGain, nSize,
          appDat, tempDat, bdIdx, bdPosWrtNode>>

\* the first call
Sort_First ==
    /\ pc = "sort"
    /\ \E tie \in TieOrders :
          /\ lacs' = SortAndKeepTopKLACs(lacs, kTop, tie)
          /\ sorted1' = lacs'
    /\ pc' = "sorted"
    /\ UNCHANGED kTop
    /\ UNCHANGED nonSortVars

\* the second call with the same k
Sort_Second ==
    /\ pc = "sorted"
    /\ \E tie \in TieOrders : lacs' = SortAndKeepTopKLACs(lacs, kTop, tie)
    /\ pc' = "sorted2"
    /\ UNCHANGED <<kTop, sorted1>>
    /\ UNCHANGED nonSortVars

NextSort ==
    \/ Sort_First
    \/ Sort_Second

SpecSort == InitSort /\ [][NextSort]_vars


(***************************************************************************)
(* Properties                                                              *)
(***************************************************************************)
\* error of one input assignment under the metric, from the output words
ErrAt(acc, app, metrType, x) ==
    IF metrType = "MAXED"
    THEN AbsDiff(BitsToInt(PoVals(acc, x)), BitsToInt(PoVals(app, x)))
    ELSE Cardinality({k \in 1 .. GetPoNum(acc) : PoVals(acc, x)[k] # PoVals(app, x)[k]})

\* the error stays within the bound on every input assignment
Within(acc, app, metrType, bound) ==
    \A x \in AllPatts(acc) : ErrAt(acc, app, metrType, x) <= bound

\* the error reaches the value e on some input assignment
WorstErrAtLeast(acc, app, metrType, e) ==
    \E x \in AllPatts(acc) : ErrAt(acc, app, metrType, x) >= e

LiveIds(net) == {i \in Ids(net) : IsObj(net, i)}

\* every object of base is in net with the fanins and the function it has in base
RestoredOnBase(base, net) ==
    \A i \in LiveIds(base) :
        /\ i \in LiveIds(net)
        /\ net.kind[i] = base.kind[i]
        /\ net.fanins[i] = base.fanins[i]
        /\ net.sop[i] = base.sop[i]

\* the same IDs, and on each the same fanins in the same order and the same function
SameStructure(a, b) == LiveIds(a) = LiveIds(b) /\ RestoredOnBase(a, b)

\* no object is in its own transitive fanin
Acyclic(net) ==
    \A n \in LiveIds(net) : n \notin TfiClosure(net, SeqToSet(net.fanins[n]))

NoDup(s) == \A i, j \in 1 .. Len(s) : i # j => s[i] # s[j]

\* C1: whenever a candidate is kept, and at the end of every round, the
\* worst-case error between the accurate and the approximate network over
\* all input assignments is no more than errUppBound
C1_ErrorWithinBound ==
    (lastStep = "unsat" \/ pc \in {"post", "exit"})
        => Within(accNet, appNet, opt.metrType, opt.errUppBound)

\* C2: when the verifier answers UNSAT on the miter of the accurate network,
\* the trial network and the embedded bound, the error of the two networks
\* is within the bound on every input assignment
C2_UnsatMeansWithinBound ==
    lastStep = "unsat" => Within(accNet, trialNet, opt.metrType, opt.errUppBound)

C2_Witness ==
    /\ lastStep = "unsat"
    /\ WorstErrAtLeast(accNet, trialNet, opt.metrType, 1)

\* C3: when the verifier answers SAT, the two networks evaluated on the
\* returned assignment, entry i on input i, differ by more than the bound
C3_CounterExampleExceedsBound ==
    lastStep = "sat"
        => /\ Len(counterEx) = GetPiNum(accNet)
           /\ ErrAt(accNet, trialNet, opt.metrType, BitsToInt(counterEx)) > opt.errUppBound

C3_Witness ==
    /\ lastStep = "sat"
    /\ \E i, j \in 1 .. Len(counterEx) : counterEx[i] # counterEx[j]

\* C4: after a temporary application and its rollback the network has the
\* IDs, fanin lists and functions it had before the application
C4_RollbackRestoresStructure ==
    (pc = "apply" /\ lastStep \in {"cyclic", "fast", "sat", "undef"})
        => SameStructure(trialBase, appNet)

\* C5: after the cleanup of a round with a commit, the size is smaller than
\* the recorded one, or equal with a depth that is not larger
C5_NoSizeDepthRegression ==
    pc = "post"
        => \/ GetArea(appNet) < oldSize
           \/ GetArea(appNet) = oldSize /\ GetDelay(appNet) <= oldDepth


\* C6: within one pass no two committed candidates have the same target: a
\* candidate whose target is committed reaches neither the trial nor the
\* verifier, and its visit leaves the network and the commits as they are
C6_OneCommitPerTarget ==
    /\ [](/\ NoDup(passCommits)
          /\ lastStep \in {"trial", "cyclic", "fast", "sat", "undef"}
                => curLac.targId \notin SeqToSet(passCommits)
          /\ lastStep = "unsat"
                => /\ passCommits # <<>>
                   /\ curLac.targId = passCommits[Len(passCommits)])
    /\ [][(pc = "apply" /\ lacs # <<>> /\ Head(lacs).targId \in SeqToSet(passCommits))
            => (appNet' = appNet /\ pc' = "apply" /\ passCommits' = passCommits
                /\ lastStep' = "frozen")]_vars

C6_Witness ==
    /\ lastStep = "frozen"
    /\ curLac.targId \in SeqToSet(passCommits)
    /\ GetFanoutNum(appNet, curLac.targId) > 0

\* C7: the approximate network is acyclic whenever no trial is pending, and
\* a trial that closes a cycle is undone before the verifier is called and
\* is not committed
C7_AcyclicWhenCommitted ==
    /\ pc # "verify" => Acyclic(appNet)
    /\ lastStep = "cyclic"
          => /\ pc # "verify"
             /\ curLac.targId \notin SeqToSet(passCommits)
             /\ pc = "apply" => RestoredOnBase(trialBase, appNet)
    /\ lastStep \in {"trial", "unsat"} => Acyclic(appNet)

C7_Witness ==
    /\ lastStep = "cyclic"
    /\ ~Acyclic(TempApplyLac(trialBase, curLac).net)


C9_UndefBlacklistedForGood ==
    /\ (lastStep = "undef" /\ pc = "apply")
          => /\ ToStrShort(curLac) \in lacBlackList
             /\ RestoredOnBase(trialBase, appNet)
    /\ lastStep = "undef" => ToStrShort(curLac) \in everBlack
    /\ lastStep \in {"trial", "cyclic"} => ToStrShort(curLac) \notin everBlack

\* a later round generates a blacklisted signature again and the list that
\* reaches ApplyMultValidLacs is without it
C9_Witness ==
    /\ pc = "apply"
    /\ nVisited = 0
    /\ round > 1
    /\ \E i \in 1 .. Len(GenLacs(appNet, phase)) :
          ToStrShort(GenLacs(appNet, phase)[i]) \in lacBlackList
    /\ \A i \in 1 .. Len(lacs) : ToStrShort(lacs[i]) \notin lacBlackList

\* the candidates of a list that are better than the candidate l
Betters(s, l) == {i \in 1 .. Len(s) : Lac0BetterThanLac1(s[i], l)}

\* C10: SortAndKeepTopKLACs(k) leaves the min(k, n) smallest candidates in
\* the order, and a second call with the same k leaves the list as it is
C10_TopKSortedAndIdempotent ==
    /\ pc \in {"sorted", "sorted2"}
          => /\ Len(lacs) = Min2(kTop, Len(estLacs))
             /\ \A i, j \in 1 .. Len(lacs) : i < j => ~Lac0BetterThanLac1(lacs[j], lacs[i])
             /\ \A i \in 1 .. Len(lacs) :
                   /\ \E j \in 1 .. Len(estLacs) : estLacs[j] = lacs[i]
                   /\ Cardinality(Betters(estLacs, lacs[i])) < Len(lacs)
    /\ pc = "sorted2" => lacs = sorted1


(***************************************************************************)
(* ErrMan on an accurate and an approximate network (error.cc) and the     *)
(* enumeration mode of the simulator (simulator.cc)                        *)
(***************************************************************************)
\* a phase that starts low
EnumPhase_StartLow(i, j) == 1 - Bit(j, i)

\* Simulator::GenInpEnum: the phase of input i after frame j; it starts at 1
\* and toggles whenever j is a multiple of 2^i
RECURSIVE EnumPhase(_, _)
EnumPhase(i, j) ==
    IF j < 0 THEN 1
    ELSE IF j % Pow2(i) = 0 THEN 1 - EnumPhase(i, j - 1) ELSE EnumPhase(i, j - 1)

\* Simulator's constructor in enumeration mode: nFrame = 1 << nPi
EnumFrames(net) == Pow2(GetPiNum(net))

\* GenInpEnum: dat[id] is the bit vector of an object, one bit per frame;
\* bit j of an input is set when its phase is 1 after frame j
GenInpEnum(net) ==
    [id \in Ids(net) |->
        [j \in 1 .. EnumFrames(net) |->
            IF IsObjPi(net, id) THEN EnumPhase(PiIndex(net, id), j - 1) ELSE 0]]

\* Simulator::InitConstNodes
InitConstNodes(net, dat) ==
    [id \in Ids(net) |->
        IF IsConst0(net, id) THEN [j \in 1 .. Len(dat[id]) |-> 0]
        ELSE IF IsConst1(net, id) THEN [j \in 1 .. Len(dat[id]) |-> 1]
        ELSE dat[id]]

\* Simulator::UpdSopNode / SimSop over the nodes of the topological order
RECURSIVE UpdSopNodes(_, _, _)
UpdSopNodes(net, nodes, dat) ==
    IF nodes = <<>> THEN dat
    ELSE LET id == Head(nodes)
             res == [j \in 1 .. Len(dat[id]) |->
                        SopVal(net.sop[id],
                               [i \in 1 .. GetFaninNum(net, id) |-> dat[net.fanins[id][i]][j]])]
         IN  UpdSopNodes(net, Tail(nodes), [dat EXCEPT ![id] = res])

\* Simulator::UpdNodeAndPoPatts: the nodes in topological order, then every
\* output copies the vector of its driver
UpdNodeAndPoPatts(net, dat) ==
    LET Copy(d) == [id \in Ids(net) |-> IF IsObjPo(net, id) THEN d[net.fanins[id][1]] ELSE d[id]]
    IN  Copy(UpdSopNodes(net, CalcTopoOrd(net), dat))

\* Simulator::LogicSim in enumeration mode: GenInpPatts, UpdNodeAndPoPatts
LogicSimEnum(net) == UpdNodeAndPoPatts(net, InitConstNodes(net, GenInpEnum(net)))

\* Simulator::GetInput: inputs lsb .. msb of frame iPatt as a number
GetInput(net, dat, iPatt, lsb, msb) ==
    BitsToInt([k \in 1 .. (msb - lsb + 1) |-> dat[PiIds(net)[lsb + k]][iPatt + 1]])

\* Simulator::GetOutputFast: the outputs of frame iPatt as a number
GetOutputFast(net, dat, iPatt) ==
    BitsToInt([k \in 1 .. GetPoNum(net) |-> dat[PoIds(net)[k]][iPatt + 1]])

\* Simulator::GetMaxErrDistFast over the frames 0 .. n - 1
RECURSIVE GetMaxErrDistFast(_, _, _, _, _)
GetMaxErrDistFast(net0, dat0, net1, dat1, n) ==
    IF n = 0 THEN 0
    ELSE Max2(GetMaxErrDistFast(net0, dat0, net1, dat1, n - 1),
              AbsDiff(GetOutputFast(net0, dat0, n - 1), GetOutputFast(net1, dat1, n - 1)))

\* the value the assumption literals give ref_err, bit 0 first
AssumedRefErr(mid, refEdWidth) == BitsToInt([i \in 1 .. refEdWidth |-> Bit(mid, i - 1)])

\* a miter solved with ref_err left free
MiterSat_NoAssumptions(acc, app, metrType, mid) ==
    \E x \in AllPatts(acc), r \in 0 .. (Pow2(RefErrWidth(metrType, GetPoNum(acc))) - 1) :
        DevCompNet(metrType, GetPoNum(acc), PoVals(acc, x), PoVals(app, x), r) = 1

\* the solver's answer on the miter of BuildErrMit under the assumptions
\* ref_err = mid: satisfiable when some input drives the output f to 1
MiterSat(acc, app, metrType, mid) ==
    \E x \in AllPatts(acc) :
        DevCompNet(metrType, GetPoNum(acc), PoVals(acc, x), PoVals(app, x),
                   AssumedRefErr(mid, RefErrWidth(metrType, GetPoNum(acc)))) = 1

\* ErrMan::SolveSatsForMaxErrBinSearch: the loop from (left, right)
RECURSIVE SolveSatsForMaxErrBinSearch(_, _, _, _, _)
SolveSatsForMaxErrBinSearch(acc, app, metrType, left, right) ==
    IF left > right THEN left
    ELSE LET mid == left + (right - left) \div 2
         IN  IF MiterSat(acc, app, metrType, mid)
             THEN SolveSatsForMaxErrBinSearch(acc, app, metrType, mid + 1, right)
             ELSE SolveSatsForMaxErrBinSearch(acc, app, metrType, left, mid - 1)

\* a search that tries every value of the range
BinSearchSolves_Linear(acc, app, metrType, left, right) == right - left + 1

\* the solver calls the loop makes from (left, right)
RECURSIVE BinSearchSolves(_, _, _, _, _)
BinSearchSolves(acc, app, metrType, left, right) ==
    IF left > right THEN 0
    ELSE LET mid == left + (right - left) \div 2
         IN  IF MiterSat(acc, app, metrType, mid)
             THEN 1 + BinSearchSolves(acc, app, metrType, mid + 1, right)
             ELSE 1 + BinSearchSolves(acc, app, metrType, left, mid - 1)

\* ErrMan::ComputeMaxErr
ComputeMaxErr(acc, app, metrType) ==
    SolveSatsForMaxErrBinSearch(acc, app, metrType, 0,
                                Pow2(RefErrWidth(metrType, GetPoNum(acc))) - 1)

\* a two-bit multiplier: inputs a0 a1 b0 b1, outputs p0 .. p3
NetMult2 ==
    MkNet(4, <<8, 12, 14, 15>>,
          <<Gate(<<0, 2>>, SopAnd), Gate(<<1, 2>>, SopAnd), Gate(<<0, 3>>, SopAnd),
            Gate(<<1, 3>>, SopAnd), Gate(<<9, 10>>, SopXor), Gate(<<9, 10>>, SopAnd),
            Gate(<<11, 13>>, SopXor), Gate(<<11, 13>>, SopAnd)>>)

ErrNets == AccNets \cup {NetCross, NetMult2}

\* the approximate networks handed to ErrMan: the accurate one, or one
\* rewrite of a node away from it
ErrAppNets(acc) == {acc} \cup {TempApplyLac(acc, lac).net : lac \in CandPool(acc)}

\* ComparePi: the names of net0 are those of net1 by position; net1 may
\* have further inputs when allowExtraPi is set
ComparePi(pi0, pi1, allowExtraPi) ==
    /\ IF allowExtraPi THEN ~(Len(pi0) > Len(pi1)) ELSE Len(pi0) = Len(pi1)
    /\ \A i \in 1 .. Len(pi0) : pi0[i] = pi1[i]

\* a comparison of the number of outputs only
ComparePo_CountOnly(po0, po1) == Len(po0) = Len(po1)

\* ComparePo
ComparePo(po0, po1) ==
    /\ Len(po0) = Len(po1)
    /\ \A i \in 1 .. Len(po0) : po0[i] = po1[i]

\* names of an approximate network read from another file: the same names,
\* the first two inputs exchanged, an input renamed, an output renamed
NameVariants(net) ==
    LET same == SameNames(net)
        Swap(s) == [i \in 1 .. Len(s) |-> IF i = 1 THEN s[2] ELSE IF i = 2 THEN s[1] ELSE s[i]]
    IN  {same,
         [same EXCEPT !.pi1 = Swap(@)],
         [same EXCEPT !.pi1[1] = 0],
         [same EXCEPT !.po1[1] = 0]}

NET_TYPES == {"SOP", "AIG"}

\* the two networks handed to ErrMan's constructor; a network is misnamed
\* or in another representation in one way at a time
InitErr ==
    /\ accNet \in ErrNets
    /\ opt \in {o \in Options(accNet) : o.flow = "v2" /\ o.seed = 0 /\ o.errUppBound = 0
                   /\ o.nFrame = ROUGH_SIM_FRAME}
    /\ appNet \in ErrAppNets(accNet)
    /\ accPatts = GenInpUnif(opt.seed, opt.nFrame, GetPiNum(accNet))
    /\ accPoDat = SimPos(accNet, accPatts)
    /\ pc = "errnew"
    /\ counterExPiPatts = [i \in 1 .. GetPiNum(accNet) |-> <<>>]
    /\ trialBase = accNet
    /\ trialNet = accNet
    /\ phases = <<>>
    /\ phase = NoPhase
    /\ round = 1
    /\ oldSize = 0
    /\ oldDepth = 0
    /\ lacBlackList = {}
    /\ countExNum = 0
    /\ lacs = <<>>
    /\ nVisited = 0
    /\ curLac = NoLac
    /\ replTrace = <<>>
    /\ frozTargNodes = {}
    /\ existValidLac = FALSE
    /\ counterEx = <<>>
    /\ nUndef = 0
    /\ lastStep = "none"
    /\ passCommits = <<>>
    /\ everBlack = {}
    /\ estLacs = <<>>
    /\ kTop = 0
    /\ sorted1 = <<>>
    /\ smlt = <<>>
    /\ maxErr = -1
    /\ nSolve = 0
    /\ netType \in [acc : {"SOP"}, app : NET_TYPES]
    /\ ioNames \in NameVariants(accNet)
    /\ netType.app = "SOP" \/ ioNames = SameNames(accNet)
    /\ maxCandResub = maxCandLacs
    /\ iBit = 0
    /\ drivId = -1
    /\ constIds = <<-1, -1>>
    /\ maxErr0 = -1
    /\ maxErr1 = -1
    /\ gainRoot = -1
    /\ gainDivs = <<>>
    /\ nSizeGain = -1
    /\ nSize = <<>>
    /\ appDat = <<>>
    /\ tempDat = <<>>
    /\ bdIdx = -1
    /\ bdPosWrtNode = <<>>

errOtherVars == <<accNet, opt, appNet, accPatts, accPoDat, phases, phase, round, oldSize,
                  oldDepth, lacBlackList, countExNum, nUndef, everBlack, estLacs, netType,
                  ioNames, maxCandResub, iBit, drivId, constIds, maxErr0,
                  maxErr1, gainRoot, gainDivs, nSizeGain, nSize,
          appDat, tempDat, bdIdx, bdPosWrtNode>>

\* ErrMan::ErrMan(net0, net1): the outputs, then the inputs are compared
Err_Construct ==
    /\ pc = "errnew"
    /\ pc' = IF ~ComparePo(ioNames.po0, ioNames.po1) THEN "abort"
             ELSE IF ~ComparePi(ioNames.pi0, ioNames.pi1, TRUE) THEN "abort"
             ELSE "err"
    /\ UNCHANGED <<smlt, maxErr, nSolve>>
    /\ UNCHANGED errOtherVars
    /\ UNCHANGED passVars
    /\ UNCHANGED sortVars

\* ErrMan::LogicSim in enumeration mode (GetMaxErrDistUsingEnum)
Err_LogicSim ==
    /\ pc = "err"
    /\ smlt = <<>>
    /\ smlt' = <<LogicSimEnum(accNet), LogicSimEnum(appNet)>>
    /\ UNCHANGED <<pc, maxErr, nSolve>>
    /\ UNCHANGED errOtherVars
    /\ UNCHANGED passVars
    /\ UNCHANGED sortVars

\* ErrMan::ComputeMaxErr: BuildErrMit refuses a network that is not in SOP
\* form; a solver call that runs out of conflicts ends in assert(0)
Err_ComputeMaxErr ==
    /\ pc = "err"
    /\ maxErr = -1
    /\ IF netType.acc # "SOP" \/ netType.app # "SOP"
       THEN pc' = "abort" /\ UNCHANGED <<maxErr, nSolve>>
       ELSE \E undef \in BOOLEAN :
               IF undef
               THEN pc' = "abort" /\ maxErr' = maxErr /\ nSolve' = nSolve + 1
               ELSE /\ pc' = pc
                    /\ maxErr' = ComputeMaxErr(accNet, appNet, opt.metrType)
                    /\ nSolve' = nSolve + BinSearchSolves(accNet, appNet, opt.metrType, 0,
                                     Pow2(RefErrWidth(opt.metrType, GetPoNum(accNet))) - 1)
    /\ UNCHANGED smlt
    /\ UNCHANGED errOtherVars
    /\ UNCHANGED passVars
    /\ UNCHANGED sortVars

NextErr ==
    \/ Err_Construct
    \/ Err_LogicSim
    \/ Err_ComputeMaxErr

SpecErr == InitErr /\ [][NextErr]_vars

\* the largest error between two networks over all input assignments
RECURSIVE MaxErrOver(_, _, _, _)
MaxErrOver(acc, app, metrType, n) ==
    IF n = 0 THEN 0
    ELSE Max2(MaxErrOver(acc, app, metrType, n - 1), ErrAt(acc, app, metrType, n - 1))

\* C11: the value ComputeMaxErr returns is the largest error between the
\* outputs of the two networks over all input assignments (absolute
\* difference under MAXED, differing output bits under MAXHD); under MAXED it
\* is the value the enumeration of all frames gives
C11_ComputeMaxErrIsExact ==
    /\ maxErr # -1 => maxErr = MaxErrOver(accNet, appNet, opt.metrType, Pow2(GetPiNum(accNet)))
    /\ (maxErr # -1 /\ smlt # <<>> /\ opt.metrType = "MAXED")
          => maxErr = GetMaxErrDistFast(accNet, smlt[1], appNet, smlt[2], EnumFrames(accNet))

C11_Witness ==
    /\ maxErr > 1
    /\ smlt # <<>>
    /\ opt.metrType = "MAXED"
    /\ accNet = NetMult2

\* the enumeration patterns of one simulator are the truth table of its network
EnumSimExact(net, dat) ==
    LET nPi == GetPiNum(net)
        frames == 0 .. (EnumFrames(net) - 1)
    IN  /\ \A id \in Ids(net) : Len(dat[id]) = Pow2(nPi)
        /\ \A j \in frames : \A i \in 1 .. nPi : dat[PiIds(net)[i]][j + 1] = Bit(j, i - 1)
        /\ \A x \in AllPatts(net) :
              Cardinality({j \in frames : GetInput(net, dat, j, 0, nPi - 1) = x}) = 1
        /\ \A j \in frames : \A k \in 1 .. GetPoNum(net) :
              dat[PoIds(net)[k]][j + 1]
                 = ObjVal(net, PoIds(net)[k], GetInput(net, dat, j, 0, nPi - 1))

\* C12: after a simulation in enumeration mode a network with n inputs has
\* 2^n frames, frame j gives input i the i-th bit of j, every input
\* combination occurs exactly once, and every output holds the value of the
\* network's function on the inputs of the frame; the outputs of the
\* multiplier are the product of its two operands in every frame
C12_EnumSimIsTruthTable ==
    smlt # <<>> =>
        /\ EnumSimExact(accNet, smlt[1])
        /\ EnumSimExact(appNet, smlt[2])
        /\ accNet = NetMult2 =>
              \A j \in 0 .. (EnumFrames(accNet) - 1) :
                  GetOutputFast(accNet, smlt[1], j)
                     = GetInput(accNet, smlt[1], j, 0, 1) * GetInput(accNet, smlt[1], j, 2, 3)

C12_Witness ==
    /\ smlt # <<>>
    /\ accNet = NetMult2
    /\ appNet # accNet
    /\ \E j \in 0 .. (EnumFrames(accNet) - 1) : GetOutputFast(accNet, smlt[1], j) = 9

(***************************************************************************)
(* The driver from its start (main.cc): ALSOpt, ALSMan, then the flow; and *)
(* ErrMan used on its own                                                  *)
(***************************************************************************)
\* the options as given on the command line
ConfOptions ==
    {o \in [metrType : METR_TYPES, errUppBound : -1 .. MaxErrUppBound, nFrame : NFrames,
            seed : Seeds, flow : {"v2", "fast"}] :
        o.flow = "fast" => o.metrType = "MAXHD"}

InitConf ==
    /\ accNet \in AccNets
    /\ opt \in ConfOptions
    /\ appNet = accNet
    /\ accPatts = <<>>
    /\ accPoDat = <<>>
    /\ pc = "main"
    /\ counterExPiPatts = [i \in 1 .. GetPiNum(accNet) |-> <<>>]
    /\ trialBase = accNet
    /\ trialNet = accNet
    /\ phases = <<>>
    /\ phase = NoPhase
    /\ round = 1
    /\ oldSize = 0
    /\ oldDepth = 0
    /\ lacBlackList = {}
    /\ countExNum = 0
    /\ lacs = <<>>
    /\ nVisited = 0
    /\ curLac = NoLac
    /\ replTrace = <<>>
    /\ frozTargNodes = {}
    /\ existValidLac = FALSE
    /\ counterEx = <<>>
    /\ nUndef = 0
    /\ lastStep = "none"
    /\ passCommits = <<>>
    /\ everBlack = {}
    /\ estLacs = <<>>
    /\ kTop = 0
    /\ sorted1 = <<>>
    /\ smlt = <<>>
    /\ maxErr = -1
    /\ nSolve = 0
    /\ netType \in {[acc |-> t, app |-> t] : t \in NET_TYPES}
    /\ ioNames = SameNames(accNet)
    /\ maxCandResub = maxCandLacs
    /\ iBit = 0
    /\ drivId = -1
    /\ constIds = <<-1, -1>>
    /\ maxErr0 = -1
    /\ maxErr1 = -1
    /\ gainRoot = -1
    /\ gainDivs = <<>>
    /\ nSizeGain = -1
    /\ nSize = <<>>
    /\ appDat = <<>>
    /\ tempDat = <<>>
    /\ bdIdx = -1
    /\ bdPosWrtNode = <<>>

confOtherVars == <<accNet, opt, appNet, phases, phase, round, oldSize, oldDepth,
                   lacBlackList, countExNum, nUndef, everBlack, estLacs>>

\* ALSOpt::ALSOpt: a negative bound is refused
Conf_ALSOpt ==
    /\ pc = "main"
    /\ pc' = IF opt.errUppBound < 0 THEN "abort" ELSE "man"
    /\ UNCHANGED <<accPatts, accPoDat>>
    /\ UNCHANGED confOtherVars
    /\ UNCHANGED passVars
    /\ UNCHANGED sortVars
    /\ UNCHANGED errVars
    /\ UNCHANGED confVars
    /\ UNCHANGED gainVars
    /\ UNCHANGED bdVars
    /\ UNCHANGED truncVars
    /\ UNCHANGED nSolve

\* ALSMan::ALSMan: the bound of the Hamming distance is below the output
\* width, pAccSmlt is simulated, the deviation networks are generated
Conf_ALSMan ==
    /\ pc = "man"
    /\ IF opt.metrType = "MAXHD" /\ opt.errUppBound >= GetPoNum(accNet)
       THEN pc' = "abort" /\ UNCHANGED <<accPatts, accPoDat>>
       ELSE /\ accPatts' = GenInpUnif(opt.seed, opt.nFrame, GetPiNum(accNet))
            /\ accPoDat' = SimPos(accNet, accPatts')
            /\ pc' = IF opt.errUppBound > 0
                        /\ ~EmbedErrBoundOk(opt.metrType, GetPoNum(accNet), opt.errUppBound)
                     THEN "abort" ELSE "run"
    /\ UNCHANGED confOtherVars
    /\ UNCHANGED passVars
    /\ UNCHANGED sortVars
    /\ UNCHANGED errVars
    /\ UNCHANGED confVars
    /\ UNCHANGED gainVars
    /\ UNCHANGED bdVars
    /\ UNCHANGED truncVars
    /\ UNCHANGED nSolve

InitConfOrErr == InitConf \/ InitErr

NextConf ==
    \/ Conf_ALSOpt
    \/ Conf_ALSMan
    \/ Next
    \/ NextErr

SpecConf == InitConfOrErr /\ [][NextConf]_vars

\* an output of net0 has another name than the output of net1 at its
\* position, or an input of net0 has no input of net1 of its name at its position
NamesMismatch ==
    \/ ioNames.po0 # ioNames.po1
    \/ \E i \in 1 .. Len(ioNames.pi0) : i > Len(ioNames.pi1) \/ ioNames.pi0[i] # ioNames.pi1[i]

\* C13: a negative bound, input or output names of the approximate network
\* that differ from those of the accurate one, and a network that is not in
\* SOP form are each met by an abort at the constructor or entry that checks
\* them: the run gets no further than that point, and no candidate is
\* generated, no network is edited and no solver call is made
C13_ConfigErrorsAbortEarly ==
    /\ [](opt.errUppBound < 0 => pc \in {"main", "abort"} /\ accPatts = <<>>)
    /\ [](NamesMismatch
             => pc \in {"errnew", "abort"} /\ smlt = <<>> /\ maxErr = -1)
    /\ [](netType.acc # "SOP" => pc \in {"main", "man", "run", "abort"})
    /\ [](netType.app # "SOP" => pc \in {"main", "man", "run", "errnew", "err", "abort"}
                                   /\ maxErr = -1)
    /\ []((\/ opt.errUppBound < 0
           \/ netType.acc # "SOP" \/ netType.app # "SOP"
           \/ NamesMismatch)
             => /\ lacs = <<>> /\ estLacs = <<>> /\ nVisited = 0 /\ lastStep = "none"
                /\ nSolve = 0 /\ phases = <<>>)
    /\ [][(\/ opt.errUppBound < 0
           \/ netType.acc # "SOP" \/ netType.app # "SOP"
           \/ NamesMismatch)
             => appNet' = appNet /\ accNet' = accNet]_vars

C13_Witness ==
    /\ pc = "abort"
    /\ netType.acc # "SOP"
    /\ opt.errUppBound >= 0
    /\ accPatts # <<>>

\* C14: the counterexamples are written into the frames of pAccSmlt as into
\* a ring of nFrame slots: the cursor stays in 0 .. nFrame - 1, a recorded
\* counterexample takes the frame under the cursor and leaves the others as
\* they are, the cursor then moves on by one and returns to 0 after the last
\* frame; nothing else moves the cursor or writes a frame, in any round of
\* any phase
C14_CounterExampleRing ==
    /\ [](countExNum \in 0 .. (opt.nFrame - 1) /\ Len(accPatts) = opt.nFrame)
    /\ [][(pc = "verify" /\ lastStep' = "sat")
             => /\ accPatts'[countExNum + 1] = BitsToInt(counterEx')
                /\ \A j \in 1 .. opt.nFrame : j # countExNum + 1 => accPatts'[j] = accPatts[j]
                /\ countExNum' = (countExNum + 1) % opt.nFrame]_vars
    /\ [][(countExNum' # countExNum \/ accPatts' # accPatts)
             => (pc = "verify" /\ lastStep' = "sat")]_vars

\* the cursor is back at 0 after a counterexample of a later round took the
\* last of several frames
C14_Witness ==
    /\ lastStep = "sat"
    /\ countExNum = 0
    /\ opt.nFrame > 1
    /\ round > 1
    /\ accPatts[opt.nFrame] = BitsToInt(counterEx)

\* C15: once a candidate is committed in a pass, a later candidate of the
\* pass whose target or one of whose divisors is the target of that commit
\* is passed over: the network is not edited for it and the verifier is not
\* asked about it
C15_NoTouchAfterCommit ==
    [][(/\ pc = "apply"
        /\ lacs # <<>>
        /\ \/ Head(lacs).targId \in SeqToSet(passCommits)
           \/ \E d \in 1 .. Len(Head(lacs).divs) : Head(lacs).divs[d] \in SeqToSet(passCommits))
          => /\ appNet' = appNet
             /\ pc' = "apply"
             /\ lastStep' \in {"frozen", "dangling"}
             /\ passCommits' = passCommits]_vars

\* the counterexamples of the last pass that are still in a frame of pAccSmlt
LiveCounterExs ==
    {x \in {CexPatt(counterExPiPatts, j) : j \in 1 .. Len(counterExPiPatts[1])} :
        x \in SeqToSet(accPatts)}

\* C16: when the estimator runs at the head of a round, every
\* counterexample the pass before it recorded, and that no later
\* counterexample has overwritten, is one of the patterns the estimator
\* scores the candidates on, whatever the configured frame count
C16_CounterExamplesReachEstimator ==
    [][(pc = "round" /\ pc' \in {"apply", "exit"})
          => LiveCounterExs \subseteq EstPatts(accNet, appNet, opt.seed, opt.nFrame, accPatts,
                                               accPoDat)]_vars

\* the same for frame counts that are not below the rough pass
C16_HoldsFromRoughFrameCount ==
    [][(pc = "round" /\ pc' \in {"apply", "exit"} /\ opt.nFrame >= ROUGH_SIM_FRAME)
          => LiveCounterExs \subseteq EstPatts(accNet, appNet, opt.seed, opt.nFrame, accPatts,
                                               accPoDat)]_vars

\* C17: every call of SimplifyWithSingleLac comes to its end, whatever the
\* verifier answers; a round after which the loop goes on has made the pair
\* (size, depth) strictly smaller in lexicographic order; a pass holds at
\* most TOP_K_LAC candidates and visits each of them once, in list order
C17_SimplifyTerminates ==
    /\ (pc \in {"round", "apply", "verify", "post"}) ~> (pc \in {"exit", "abort"})
    /\ [][(pc = "post" /\ pc' = "round")
             => /\ \/ GetArea(appNet) < oldSize
                   \/ GetArea(appNet) = oldSize /\ GetDelay(appNet) < oldDepth
                /\ oldSize' = GetArea(appNet)
                /\ oldDepth' = GetDelay(appNet)
                /\ round' = round + 1]_vars
    /\ [](pc \in {"apply", "verify"} => nVisited + Len(lacs) <= TOP_K_LAC)
    /\ [][lacs' # lacs
             => \/ pc = "round"
                \/ pc = "apply" /\ lacs # <<>> /\ lacs' = Tail(lacs) /\ curLac' = Head(lacs)
                   /\ nVisited' = nVisited + 1]_vars

\* a second round is under way after a round that made the network smaller
C17_Witness ==
    /\ round > 1
    /\ pc = "verify"
    /\ nVisited > 1
    /\ GetArea(appNet) < GetArea(accNet)


\* the positions inside a call of SimplifyWithSingleLac
InPhase == pc \in {"round", "apply", "verify", "post"}

\* the three breaks of the loop of SimplifyWithSingleLac, as steps
PhaseEndsByBreak ==
    /\ pc' = "exit"
    /\ \/ pc = "round" /\ lacs' = <<>>
       \/ pc = "apply" /\ lacs = <<>> /\ ~existValidLac
       \/ pc = "post" /\ GetArea(appNet) = oldSize /\ GetDelay(appNet) = oldDepth

\* C18: a phase ends only by one of the three breaks of its loop (no
\* candidate left after pruning, no commit in the pass, size and depth as
\* before), each of them a return, and never by an abort
C18_PhaseEndsNormally ==
    [][(InPhase /\ ~InPhase') => PhaseEndsByBreak]_vars

\* the ends of a phase that are not aborts are the three breaks
C18_ReturnsAreBreaks ==
    [][(InPhase /\ ~InPhase' /\ pc' # "abort") => PhaseEndsByBreak]_vars


\* a visit that reaches the temporary application
TrialStep ==
    /\ pc = "apply"
    /\ lacs # <<>>
    /\ lastStep' \notin {"frozen", "dangling"}
    /\ curLac' = Head(lacs)

\* C19: when the temporary application of a candidate closes a cycle, the
\* visit ends with the network as it was before the application and with the
\* loop at its next candidate; the blacklist, the counterexample frames and
\* their cursor, the counterexamples of the pass, the frozen targets and the
\* commits are as before, and the solver has not been called
C19_CyclicTrialIsSkipped ==
    /\ [][TrialStep => (lastStep' = "cyclic" <=> ~Acyclic(TempApplyLac(appNet, Head(lacs)).net))]_vars
    /\ [][(TrialStep /\ ~Acyclic(TempApplyLac(appNet, Head(lacs)).net))
             => /\ SameStructure(appNet, appNet')
                /\ pc' = "apply"
                /\ lacs' = Tail(lacs)
                /\ lacBlackList' = lacBlackList
                /\ accPatts' = accPatts
                /\ accPoDat' = accPoDat
                /\ countExNum' = countExNum
                /\ counterEx' = counterEx
                /\ counterExPiPatts' = counterExPiPatts
                /\ frozTargNodes' = frozTargNodes
                /\ existValidLac' = existValidLac
                /\ passCommits' = passCommits
                /\ nUndef' = nUndef
                /\ nSolve' = nSolve]_vars

\* a cyclic trial has been undone after a commit and a counterexample of the pass
C19_Witness ==
    /\ lastStep = "cyclic"
    /\ pc = "apply"
    /\ ~Acyclic(TempApplyLac(trialBase, curLac).net)
    /\ SameStructure(trialBase, appNet)
    /\ nSolve > 0


\* the counterexamples of the pass, in the order of their recording
CexOfPass == [j \in 1 .. Len(counterExPiPatts[1]) |-> CexPatt(counterExPiPatts, j)]

\* C20: a trial that reaches the fast checking is rejected there exactly
\* when the miter of the accurate network and the trial network outputs 1 on
\* a counterexample that the verifier returned earlier in the same pass;
\* the rejected trial is undone and the loop goes on, the solver is not
\* called, and the counterexamples, their frames and cursor, the blacklist,
\* the frozen targets and the commits stay as they are
C20_FastCheckRejectsOnRecordedCex ==
    /\ [][pc = "verify"
             => (lastStep' = "fast"
                   <=> \E j \in 1 .. Len(CexOfPass) :
                          ErrMitOut(accNet, appNet, opt.metrType, opt.errUppBound,
                                    CexOfPass[j]) = 1)]_vars
    /\ [][(pc = "verify" /\ lastStep' = "fast")
             => /\ RestoredOnBase(trialBase, appNet')
                /\ pc' = "apply"
                /\ nSolve' = nSolve
                /\ counterExPiPatts' = counterExPiPatts
                /\ counterEx' = counterEx
                /\ accPatts' = accPatts
                /\ countExNum' = countExNum
                /\ lacBlackList' = lacBlackList
                /\ frozTargNodes' = frozTargNodes
                /\ passCommits' = passCommits
                /\ existValidLac' = existValidLac]_vars
    /\ [][(pc = "verify" /\ lastStep' # "fast") => nSolve' = nSolve + 1]_vars
    /\ [][CexOfPass' # CexOfPass
             => \/ pc = "verify" /\ lastStep' = "sat"
                   /\ CexOfPass' = Append(CexOfPass, BitsToInt(counterEx'))
                \/ pc = "round" /\ CexOfPass' = <<>>]_vars

\* a trial was rejected by the second of two counterexamples of the pass
C20_Witness ==
    /\ lastStep = "fast"
    /\ pc = "apply"
    /\ Len(CexOfPass) > 1
    /\ ErrMitOut(accNet, trialNet, opt.metrType, opt.errUppBound, CexOfPass[1]) = 0
    /\ ErrMitOut(accNet, trialNet, opt.metrType, opt.errUppBound, CexOfPass[2]) = 1


\* the records of a SAT answer: the frame at the cursor, the counterexamples
\* of the pass, and the sets that stay as they are
SatRecords ==
    /\ accPatts'[countExNum + 1] = BitsToInt(counterEx')
    /\ \A j \in 1 .. Len(accPatts) : j # countExNum + 1 => accPatts'[j] = accPatts[j]
    /\ counterExPiPatts' = [i \in 1 .. GetPiNum(accNet)
                              |-> Append(counterExPiPatts[i], counterEx'[i])]
    /\ ErrMitOut(accNet, appNet, opt.metrType, opt.errUppBound, BitsToInt(counterEx')) = 1
    /\ lacBlackList' = lacBlackList
    /\ frozTargNodes' = frozTargNodes
    /\ passCommits' = passCommits

\* C21: on a SAT answer the counterexample is written to the frame of
\* pAccSmlt at the cursor and appended to the counterexamples of the pass,
\* the blacklist and the frozen targets stay as they are, and after the
\* recovery the network has the objects, fanins and functions it had before
\* the temporary application
C21_SatRecordsAndRestores ==
    [][(pc = "verify" /\ lastStep' = "sat")
          => SatRecords /\ SameStructure(trialBase, appNet')]_vars

\* on a SAT answer the records are made and every object of the network
\* before the temporary application is back with its fanins and function
C21_SatRecordsAndUndoes ==
    [][(pc = "verify" /\ lastStep' = "sat")
          => SatRecords /\ RestoredOnBase(trialBase, appNet')]_vars


\* the pattern table of a simulator whose input vectors hold the frames patts
DatOfPatts(net, patts) ==
    [id \in Ids(net) |->
        [j \in 1 .. Len(patts) |-> IF IsObjPi(net, id) THEN Bit(patts[j], PiIndex(net, id)) ELSE 0]]

NetDangle ==
    MkNet(2, <<4, 5>>,
          <<Gate(<<0, 1>>, SopXor), Gate(<<0, 1>>, SopAnd), Gate(<<0, 1>>, SopOr)>>)

EstNets == AccNets \cup {NetDangle}

InitEst ==
    /\ accNet \in EstNets
    /\ opt \in Options(accNet)
    /\ appNet = accNet
    /\ accPatts = GenInpUnif(opt.seed, opt.nFrame, GetPiNum(accNet))
    /\ accPoDat = SimPos(accNet, accPatts)
    /\ pc = "run"
    /\ counterExPiPatts = [i \in 1 .. GetPiNum(accNet) |-> <<>>]
    /\ trialBase = accNet
    /\ trialNet = accNet
    /\ InitRest

SpecEst == InitEst /\ [][Next]_vars

\* the frames of the last pass of CompLacErrsBySimAndPruneBadLacs
LastPass ==
    PassPatts(accNet, appNet, opt.seed, opt.nFrame,
              IF ROUGH_SIM_FRAME < opt.nFrame THEN opt.nFrame ELSE ROUGH_SIM_FRAME,
              accPatts, accPoDat)

\* the largest error, over the frames of the last pass, of the network with
\* the candidate applied against the accurate outputs of the frame
LastPassErr(lac) ==
    LET net == TempApplyLac(appNet, lac).net
        FrameErr(j) ==
            LET po == PoVals(net, LastPass.patts[j])
                ref == LastPass.accPos[j]
            IN  IF opt.metrType = "MAXED"
                THEN AbsDiff(BitsToInt(po), BitsToInt(ref))
                ELSE Cardinality({k \in 1 .. Len(po) : po[k] # ref[k]})
        errs == {FrameErr(j) : j \in 1 .. Len(LastPass.patts)}
    IN  CHOOSE m \in errs : \A e \in errs : e <= m

\* the candidates that reach the estimator in the round that starts
Generated == RemLacsFromBlackList(GenLacs(appNet, phase), lacBlackList)

\* C23: the candidates that leave CompLacErrsBySimAndPruneBadLacs are
\* generated candidates whose target is in the topological order, whose
\* stored error is the error over the frames of the last pass and is not
\* above errUppBound; a generated candidate whose target is outside the
\* topological order, or whose error in the last pass is above the bound,
\* is not among them
C23_SurvivorsScoredWithinBound ==
    [][pc = "round"
          => /\ \A i \in 1 .. Len(lacs') :
                   /\ lacs'[i].targId \in SeqToSet(CalcTopoOrd(appNet))
                   /\ lacs'[i].err <= opt.errUppBound
                   /\ lacs'[i].err = LastPassErr(lacs'[i])
                   /\ \E g \in 1 .. Len(Generated) :
                         ToStrShort(Generated[g]) = ToStrShort(lacs'[i])
             /\ \A g \in 1 .. Len(Generated) :
                   (\/ Generated[g].targId \notin SeqToSet(CalcTopoOrd(appNet))
                    \/ LastPassErr(Generated[g]) > opt.errUppBound)
                      => \A i \in 1 .. Len(lacs') :
                            ToStrShort(lacs'[i]) # ToStrShort(Generated[g])]_vars

\* the estimator has removed an unscored candidate on the node that drives
\* nothing and a candidate above the bound, and has kept a candidate
C23_Witness ==
    /\ pc = "apply"
    /\ nVisited = 0
    /\ round = 1
    /\ accNet = NetDangle
    /\ lacs # <<>>
    /\ \E g \in 1 .. Len(GenLacs(appNet, phase)) :
          GenLacs(appNet, phase)[g].targId \notin SeqToSet(CalcTopoOrd(appNet))
    /\ \E i \in 1 .. Len(estLacs) : estLacs[i].err > opt.errUppBound


(***************************************************************************)
(* GenSasimiLACs on any candidate budget                                   *)
(***************************************************************************)
\* largest candidate budget explored
MaxBudget == 8

InitGen ==
    /\ accNet \in ErrNets
    /\ opt \in {o \in Options(accNet) : o.flow = "v2" /\ o.seed = 0 /\ o.errUppBound = 1
                   /\ o.nFrame = ROUGH_SIM_FRAME /\ o.metrType = "MAXED"}
    /\ appNet = accNet
    /\ accPatts = GenInpUnif(opt.seed, opt.nFrame, GetPiNum(accNet))
    /\ accPoDat = SimPos(accNet, accPatts)
    /\ pc = "gen"
    /\ counterExPiPatts = [i \in 1 .. GetPiNum(accNet) |-> <<>>]
    /\ trialBase = accNet
    /\ trialNet = accNet
    /\ phases = <<>>
    /\ phase \in {[lacType |-> "SASIMI", inclConst |-> c, fSimplify |-> FALSE] : c \in BOOLEAN}
    /\ round = 1
    /\ oldSize = 0
    /\ oldDepth = 0
    /\ lacBlackList = {}
    /\ countExNum = 0
    /\ lacs = <<>>
    /\ nVisited = 0
    /\ curLac = NoLac
    /\ replTrace = <<>>
    /\ frozTargNodes = {}
    /\ existValidLac = FALSE
    /\ counterEx = <<>>
    /\ nUndef = 0
    /\ lastStep = "none"
    /\ passCommits = <<>>
    /\ everBlack = {}
    /\ estLacs = <<>>
    /\ kTop = 0
    /\ sorted1 = <<>>
    /\ smlt = <<>>
    /\ maxErr = -1
    /\ netType = [acc |-> "SOP", app |-> "SOP"]
    /\ ioNames = SameNames(accNet)
    /\ nSolve = 0
    /\ maxCandResub \in 0 .. MaxBudget
    /\ iBit = 0
    /\ drivId = -1
    /\ constIds = <<-1, -1>>
    /\ maxErr0 = -1
    /\ maxErr1 = -1
    /\ gainRoot = -1
    /\ gainDivs = <<>>
    /\ nSizeGain = -1
    /\ nSize = <<>>
    /\ appDat = <<>>
    /\ tempDat = <<>>
    /\ bdIdx = -1
    /\ bdPosWrtNode = <<>>

\* one call of LACMan::GenSasimiLACs
Gen_Sasimi ==
    /\ pc = "gen"
    /\ pc' = "gendone"
    /\ lacs' = GenSasimiLACs(appNet, maxCandResub, phase.inclConst)
    /\ UNCHANGED <<accNet, opt, appNet, accPatts, accPoDat, phases, phase, round, oldSize,
                   oldDepth, lacBlackList, countExNum, nVisited, curLac, replTrace,
                   frozTargNodes, existValidLac, counterEx, counterExPiPatts, nUndef, lastStep,
                   trialBase, trialNet, passCommits, everBlack, estLacs, nSolve>>
    /\ UNCHANGED sortVars
    /\ UNCHANGED errVars
    /\ UNCHANGED confVars
    /\ UNCHANGED gainVars
    /\ UNCHANGED bdVars
    /\ UNCHANGED truncVars

NextGen == Gen_Sasimi

SpecGen == InitGen /\ [][NextGen]_vars

\* the targets of substitution: nodes with more than one fanin
SasimiTargs(net) ==
    {i \in Ids(net) : IsNode(net, i) /\ ~IsConst(net, i) /\ GetFaninNum(net, i) > 1}

\* the substitution candidates of the list on the target t
SubstsOn(ls, t) == {i \in 1 .. Len(ls) : ls[i].targId = t /\ ls[i].divs # <<>>}

\* the per-target quota
Quota(net, budget) ==
    IF SasimiTargs(net) = {} THEN 1 ELSE Max2(1, budget \div Cardinality(SasimiTargs(net)))

\* C24: the list of GenSasimiLACs holds, on each target, no more
\* substitution candidates than max(1, budget / number of targets)
C24_PerTargetQuota ==
    pc = "gendone"
        => \A t \in SasimiTargs(appNet) :
              Cardinality(SubstsOn(lacs, t)) <= Quota(appNet, maxCandResub)

\* the candidates come in pairs and the count is compared with the quota
\* after a pair: a target has at most one candidate more than the quota,
\* and no more than the quota when the quota is even
C24_QuotaRoundedUpToPair ==
    pc = "gendone"
        => \A t \in SasimiTargs(appNet) :
              LET n == Cardinality(SubstsOn(lacs, t))
                  q == Quota(appNet, maxCandResub)
              IN  /\ n <= q + 1
                  /\ n % 2 = 0
                  /\ q % 2 = 0 => n <= q
                  /\ \A i \in SubstsOn(lacs, t) : IsObj(appNet, lacs[i].divs[1])


(***************************************************************************)
(* The four run modes of ALSMan                                            *)
(***************************************************************************)
\* ALSMan::ALSMan: pDevCompNetEmbErr is built only under a positive bound
DevCompNetEmbErrIsNull(o) == ~(o.errUppBound > 0)

\* the options of Options with the MECALS 1.0 and the truncation mode added
ModeOptions(net) ==
    Options(net) \cup {[o EXCEPT !.flow = f] : o \in Options(net), f \in {"v1", "trunc"}}

InitModes ==
    /\ accNet \in AccNets
    /\ opt \in ModeOptions(accNet)
    /\ appNet = accNet
    /\ accPatts = GenInpUnif(opt.seed, opt.nFrame, GetPiNum(accNet))
    /\ accPoDat = SimPos(accNet, accPatts)
    /\ pc = "run"
    /\ counterExPiPatts = [i \in 1 .. GetPiNum(accNet) |-> <<>>]
    /\ trialBase = accNet
    /\ trialNet = accNet
    /\ InitRest

\* ALSMan::Run_v1 up to its first round: pDevCompNetEmbErr->Comm("st") is a
\* call through a null pointer under a zero bound, with the outcomes of a
\* crash or of going on; the rounds of PBDMan are outside the model
Run_v1 ==
    /\ pc = "run"
    /\ opt.flow = "v1"
    /\ IF DevCompNetEmbErrIsNull(opt)
       THEN lastStep' = "nullderef" /\ pc' \in {"abort", "v1"}
       ELSE lastStep' = "none" /\ pc' = "v1"
    /\ UNCHANGED <<accNet, opt, appNet, accPatts, accPoDat, phases, phase, round, oldSize,
                   oldDepth, lacBlackList, countExNum, lacs, nVisited, curLac, replTrace,
                   frozTargNodes, existValidLac, counterEx, counterExPiPatts, nUndef,
                   trialBase, trialNet, passCommits, everBlack, estLacs, nSolve>>
    /\ UNCHANGED sortVars
    /\ UNCHANGED errVars
    /\ UNCHANGED confVars
    /\ UNCHANGED gainVars
    /\ UNCHANGED bdVars
    /\ UNCHANGED truncVars

\* the loop of Run_Trunc from output iBit (0-based) on: the driver of the
\* output is replaced by the constant 0 unless it is that node, the miter
\* with the embedded bound is solved, SAT undoes the last replacement and
\* leaves the loop
RECURSIVE TruncLoop(_, _, _, _, _, _, _)
TruncLoop(acc, net, metrType, errUppBound, const0, i, trace) ==
    IF i >= GetPoNum(net) THEN [net |-> net, nSolve |-> 0]
    ELSE LET drv == GetPoDrivId(net, i)
             r == IF drv # const0 THEN TempRepl_v2(net, drv, const0)
                  ELSE [net |-> net, replTrace |-> trace]
             Count(res) == [res EXCEPT !.nSolve = @ + 1]
         IN  IF SatModels(acc, r.net, metrType, errUppBound) # {}
             THEN [net |-> Recov_v2(r.net, r.replTrace), nSolve |-> 1]
             ELSE Count(TruncLoop(acc, r.net, metrType, errUppBound, const0, i + 1,
                                  r.replTrace))

\* ALSMan::Run_Trunc: the assertions on the metric and the network type, the
\* constants, the truncation loop whose miter is built on
\* *pDevCompNetEmbErr, the logic synthesis; an indeterminate answer of the
\* solver fails the assertion on the result
Run_Trunc ==
    /\ pc = "run"
    /\ opt.flow = "trunc"
    /\ IF opt.metrType # "MAXED" \/ netType.acc # "SOP"
       THEN pc' = "abort" /\ UNCHANGED <<appNet, lastStep, nSolve>>
       ELSE IF DevCompNetEmbErrIsNull(opt)
       THEN /\ lastStep' = "nullderef"
            /\ pc' \in {"abort", "done"}
            /\ \E c \in {CreateConstsIfNotExist(accNet)} : appNet' = MergeConst(c.net)
            /\ UNCHANGED nSolve
       ELSE \E c \in {CreateConstsIfNotExist(accNet)} :
               \E res \in {TruncLoop(accNet, MergeConst(c.net), opt.metrType,
                                     opt.errUppBound, c.first, 0, <<>>)} :
                  /\ lastStep' = "none"
                  /\ \E undef \in BOOLEAN :
                        IF undef
                        THEN /\ appNet' = MergeConst(c.net)
                             /\ nSolve' = nSolve + 1
                             /\ pc' = "abort"
                        ELSE /\ appNet' = Comm(res.net)
                             /\ nSolve' = nSolve + res.nSolve
                             /\ pc' = "done"
    /\ UNCHANGED <<accNet, opt, accPatts, accPoDat, phases, phase, round, oldSize,
                   oldDepth, lacBlackList, countExNum, lacs, nVisited, curLac, replTrace,
                   frozTargNodes, existValidLac, counterEx, counterExPiPatts, nUndef,
                   trialBase, trialNet, passCommits, everBlack, estLacs>>
    /\ UNCHANGED sortVars
    /\ UNCHANGED errVars
    /\ UNCHANGED confVars
    /\ UNCHANGED gainVars
    /\ UNCHANGED bdVars
    /\ UNCHANGED truncVars

NextModes == Run_v1 \/ Run_Trunc \/ Next

SpecModes == InitModes /\ [][NextModes]_vars

\* C25: in every run mode and under every bound from 0 on,
\* pDevCompNetEmbErr is not null where it is dereferenced, and under the
\* bound 0 a call of SimplifyWithSingleLac returns at once with the
\* approximate network, the candidates and the solver untouched
C25_EmbeddedBoundNetNeverNull ==
    /\ [](lastStep # "nullderef")
    /\ [](pc \in {"round", "apply", "verify", "post"} => ~DevCompNetEmbErrIsNull(opt))
    /\ [][(pc = "enter" /\ phases # <<>> /\ opt.errUppBound = 0)
             => /\ pc' = "enter"
                /\ appNet' = appNet
                /\ lacs' = lacs
                /\ estLacs' = estLacs
                /\ nSolve' = nSolve]_vars

\* in Run_v2 and Run_FastFlow the pointer is not null where it is
\* dereferenced and a zero bound returns at once
C25_HoldsInV2AndFastFlow ==
    /\ [](opt.flow \in {"v2", "fast"} => lastStep # "nullderef")
    /\ [](pc \in {"round", "apply", "verify", "post"} => ~DevCompNetEmbErrIsNull(opt))
    /\ [][(pc = "enter" /\ phases # <<>> /\ opt.errUppBound = 0)
             => /\ pc' = "enter"
                /\ appNet' = appNet
                /\ lacs' = lacs
                /\ estLacs' = estLacs
                /\ nSolve' = nSolve]_vars

\* Run_FastFlow, "try constant 0" / "try constant 1": the driver of the bit
\* is replaced by the constant unless it is that constant, the largest
\* error is computed on a new ErrMan; a solver call that runs out of
\* conflicts ends in assert(0)
Trunc_Try(k) ==
    /\ pc = (IF k = 0 THEN "try0" ELSE "try1")
    /\ \E r \in {IF drivId # constIds[k + 1]
                 THEN TempRepl_v2(appNet, drivId, constIds[k + 1])
                 ELSE [net |-> appNet, replTrace |-> replTrace]} :
          /\ appNet' = r.net
          /\ replTrace' = r.replTrace
          /\ trialBase' = appNet
          /\ \E undef \in BOOLEAN :
                IF undef
                THEN /\ pc' = "abort"
                     /\ nSolve' = nSolve + 1
                     /\ UNCHANGED <<maxErr0, maxErr1>>
                ELSE \E e \in {ComputeMaxErr(accNet, r.net, "MAXED")} :
                        /\ pc' = (IF k = 0 THEN "recov0" ELSE "recov1")
                        /\ maxErr0' = (IF k = 0 THEN e ELSE maxErr0)
                        /\ maxErr1' = (IF k = 0 THEN maxErr1 ELSE e)
                        /\ nSolve' = nSolve + BinSearchSolves(accNet, r.net, "MAXED", 0,
                                         Pow2(RefErrWidth("MAXED", GetPoNum(accNet))) - 1)
    /\ UNCHANGED <<accNet, opt, accPatts, accPoDat, phases, phase, round, oldSize, oldDepth,
                   lacBlackList, countExNum, nUndef, everBlack, estLacs>>
    /\ UNCHANGED <<lacs, nVisited, curLac, frozTargNodes, existValidLac, counterEx,
                   counterExPiPatts, lastStep, trialNet, passCommits>>
    /\ UNCHANGED sortVars
    /\ UNCHANGED errVars
    /\ UNCHANGED confVars
    /\ UNCHANGED gainVars
    /\ UNCHANGED bdVars
    /\ UNCHANGED <<iBit, constIds, drivId>>

\* Run_FastFlow, the call of Recov_v2 that follows a trial: it is made
\* whether or not the trial replaced anything
Trunc_Recov(k) ==
    /\ pc = (IF k = 0 THEN "recov0" ELSE "recov1")
    /\ IF Recov_v2Ok(appNet, replTrace)
       THEN /\ appNet' = Recov_v2(appNet, replTrace)
            /\ pc' = (IF k = 0 THEN "try1" ELSE "best")
       ELSE /\ appNet' = appNet
            /\ pc' = "abort"
    /\ UNCHANGED <<accNet, opt, accPatts, accPoDat, phases, phase, round, oldSize, oldDepth,
                   lacBlackList, countExNum, nUndef, everBlack, estLacs>>
    /\ UNCHANGED passVars
    /\ UNCHANGED sortVars
    /\ UNCHANGED errVars
    /\ UNCHANGED confVars
    /\ UNCHANGED gainVars
    /\ UNCHANGED bdVars
    /\ UNCHANGED truncVars
    /\ UNCHANGED nSolve

\* Run_FastFlow, "apply the best one": the constant with the smaller error
\* is committed if one of the two errors is within the bound, else the loop
\* is left
Trunc_Best ==
    /\ pc = "best"
    /\ IF maxErr0 <= opt.errUppBound \/ maxErr1 <= opt.errUppBound
       THEN \E ssId \in {IF maxErr0 <= maxErr1 THEN constIds[1] ELSE constIds[2]} :
               \E r \in {IF drivId # ssId
                         THEN TempRepl_v2(appNet, drivId, ssId)
                         ELSE [net |-> appNet, replTrace |-> replTrace]} :
                  /\ replTrace' = r.replTrace
                  /\ TruncLoopHead(r.net, iBit + 1)
       ELSE /\ TruncLoopExit(appNet)
            /\ UNCHANGED <<replTrace, iBit, drivId>>
    /\ UNCHANGED <<accNet, opt, accPatts, accPoDat, phase, round, oldSize, oldDepth,
                   lacBlackList, countExNum, nUndef, everBlack, estLacs>>
    /\ UNCHANGED <<lacs, nVisited, curLac, frozTargNodes, existValidLac, counterEx,
                   counterExPiPatts, lastStep, trialBase, trialNet, passCommits>>
    /\ UNCHANGED sortVars
    /\ UNCHANGED errVars
    /\ UNCHANGED confVars
    /\ UNCHANGED gainVars
    /\ UNCHANGED bdVars
    /\ UNCHANGED <<constIds, maxErr0, maxErr1>>
    /\ UNCHANGED nSolve

\* an output driven by the constant 0 below an AND
NetConstLow ==
    MkNet(2, <<4, 5>>, <<Gate(<<>>, SopConst0), Gate(<<0, 1>>, SopAnd)>>)

\* an XOR below an output driven by the constant 0
NetConstHigh ==
    MkNet(2, <<4, 5>>, <<Gate(<<0, 1>>, SopXor), Gate(<<>>, SopConst0)>>)

\* an output driven by the constant 1 below an AND
NetConstOne ==
    MkNet(2, <<4, 5>>, <<Gate(<<>>, SopConst1), Gate(<<0, 1>>, SopAnd)>>)

TruncNets == {NetHalfAdder, NetCross, NetConstLow, NetConstHigh, NetConstOne}

\* the fast flow under MAXED, where the truncation loop is entered
TruncOptions(net) ==
    {o \in [metrType : {"MAXED"}, errUppBound : 0 .. MaxErrUppBound, nFrame : NFrames,
            seed : Seeds, flow : {"fast"}] :
        EmbedErrBoundOk(o.metrType, GetPoNum(net), o.errUppBound)}

\* the sessions of Init, and those of the fast flow under MAXED
InitTrunc ==
    /\ \/ accNet \in AccNets /\ opt \in Options(accNet)
       \/ accNet \in TruncNets /\ opt \in TruncOptions(accNet)
    /\ appNet = accNet
    /\ accPatts = GenInpUnif(opt.seed, opt.nFrame, GetPiNum(accNet))
    /\ accPoDat = SimPos(accNet, accPatts)
    /\ pc = "run"
    /\ counterExPiPatts = [i \in 1 .. GetPiNum(accNet) |-> <<>>]
    /\ trialBase = accNet
    /\ trialNet = accNet
    /\ InitRest

NextTrunc ==
    \/ \E k \in {0, 1} : Trunc_Try(k)
    \/ \E k \in {0, 1} : Trunc_Recov(k)
    \/ Trunc_Best
    \/ Next

SpecTrunc == InitTrunc /\ [][NextTrunc]_vars

\* the constant tried at the rollback the loop is about to make
TriedConst == constIds[IF pc = "recov0" THEN 1 ELSE 2]

AtRecov == pc \in {"recov0", "recov1"}

\* C26: in the truncation loop of Run_FastFlow every call of Recov_v2 gets
\* the trace of the replacement made in the same trial (a replacement was
\* made, the trace is the one TempRepl_v2 recorded for it), passes its
\* assertions, gives back the network the trial started from, and leaves
\* the drivers of the earlier output bits as they were committed
C26_TruncRollbackUsesOwnTrace ==
    /\ [](AtRecov => /\ drivId # TriedConst
                     /\ replTrace = TempRepl_v2(trialBase, drivId, TriedConst).replTrace)
    /\ [][AtRecov => /\ pc' # "abort"
                     /\ SameStructure(trialBase, appNet')
                     /\ \A j \in 0 .. (iBit - 1) :
                           GetPoDrivId(appNet', j) = GetPoDrivId(appNet, j)]_vars

\* the same for the trials that replace the driver
C26_HoldsWhenDriverReplaced ==
    /\ [](AtRecov /\ drivId # TriedConst
             => replTrace = TempRepl_v2(trialBase, drivId, TriedConst).replTrace)
    /\ [][AtRecov /\ drivId # TriedConst
             => /\ pc' # "abort"
                /\ SameStructure(trialBase, appNet')
                /\ \A j \in 0 .. (iBit - 1) :
                      GetPoDrivId(appNet', j) = GetPoDrivId(appNet, j)]_vars

\* a call of SimplifyWithSingleLac gets past its early return
PhaseStarts == pc = "enter" /\ pc' = "round"

\* C27: every phase starts with an empty counterexample pool, that is the
\* cursor at 0 and the patterns of pAccSmlt as the seed gave them, and with
\* an empty blacklist, whatever the earlier phases of the session did
C27_PhaseStartsFresh ==
    [][PhaseStarts => /\ countExNum' = 0
                      /\ accPatts' = GenInpUnif(opt.seed, opt.nFrame, GetPiNum(accNet))
                      /\ lacBlackList' = {}]_vars

\* the blacklist is local to the call, and the first phase of a session
\* starts on the seeded patterns with the cursor at 0
C27_BlacklistAndFirstPhaseFresh ==
    [][PhaseStarts => /\ lacBlackList' = {}
                      /\ phase'.lacType = PhasesOf(opt.flow)[1].lacType
                            => /\ countExNum' = 0
                               /\ accPatts' = GenInpUnif(opt.seed, opt.nFrame,
                                                         GetPiNum(accNet))]_vars

\* the values of ref_err SolveSatsForMaxErrBinSearch assumes from (left, right),
\* in the order of the solver calls
RECURSIVE BinSearchMids(_, _, _, _, _)
BinSearchMids(acc, app, metrType, left, right) ==
    IF left > right THEN <<>>
    ELSE LET mid == left + (right - left) \div 2
         IN  IF MiterSat(acc, app, metrType, mid)
             THEN <<mid>> \o BinSearchMids(acc, app, metrType, mid + 1, right)
             ELSE <<mid>> \o BinSearchMids(acc, app, metrType, left, mid - 1)

\* C28: over a reference error input of width w the search makes one solver
\* call per assumed value and at most w + 1 of them, every assumed value fits
\* the w assumption literals, and a search that meets an indeterminate
\* answer aborts without returning a value
C28_BinSearchWithinWidthPlusOne ==
    LET w == RefErrWidth(opt.metrType, GetPoNum(accNet))
        mids == BinSearchMids(accNet, appNet, opt.metrType, 0, Pow2(w) - 1)
    IN  /\ maxErr # -1
              => /\ nSolve = Len(mids)
                 /\ nSolve <= w + 1
                 /\ \A i \in 1 .. Len(mids) :
                       /\ mids[i] \in 0 .. (Pow2(w) - 1)
                       /\ AssumedRefErr(mids[i], w) = mids[i]
        /\ pc = "abort" => maxErr = -1

\* a search that needed all w + 1 calls has returned
C28_Witness ==
    /\ maxErr # -1
    /\ RefErrWidth(opt.metrType, GetPoNum(accNet)) >= 2
    /\ nSolve = RefErrWidth(opt.metrType, GetPoNum(accNet)) + 1

\* a chain of two ANDs below an AND with a repeated fanin; the first AND
\* also feeds the low output
NetChain ==
    MkNet(3, <<8, 5>>,
          <<Gate(<<0, 1>>, SopAnd), Gate(<<5, 2>>, SopAnd), Gate(<<6, 6>>, SopAnd),
            Gate(<<7, 2>>, SopOr)>>)

GainNets == ErrNets \cup {NetDangle, NetChain}

\* most divisors handed to GetSizeGain
MaxDivs == 2

\* a network, an internal root and a divisor list for GetSizeGain
InitGain ==
    /\ accNet \in GainNets
    /\ opt \in {o \in Options(accNet) : o.flow = "v2" /\ o.seed = 0 /\ o.errUppBound = 0
                   /\ o.nFrame = ROUGH_SIM_FRAME /\ o.metrType = "MAXED"}
    /\ appNet = accNet
    /\ accPatts = GenInpUnif(opt.seed, opt.nFrame, GetPiNum(accNet))
    /\ accPoDat = SimPos(accNet, accPatts)
    /\ pc = "gain"
    /\ counterExPiPatts = [i \in 1 .. GetPiNum(accNet) |-> <<>>]
    /\ trialBase = accNet
    /\ trialNet = accNet
    /\ phases = <<>>
    /\ phase = NoPhase
    /\ round = 1
    /\ oldSize = 0
    /\ oldDepth = 0
    /\ lacBlackList = {}
    /\ countExNum = 0
    /\ lacs = <<>>
    /\ nVisited = 0
    /\ curLac = NoLac
    /\ replTrace = <<>>
    /\ frozTargNodes = {}
    /\ existValidLac = FALSE
    /\ counterEx = <<>>
    /\ nUndef = 0
    /\ lastStep = "none"
    /\ passCommits = <<>>
    /\ everBlack = {}
    /\ estLacs = <<>>
    /\ kTop = 0
    /\ sorted1 = <<>>
    /\ smlt = <<>>
    /\ maxErr = -1
    /\ nSolve = 0
    /\ netType = [acc |-> "SOP", app |-> "SOP"]
    /\ ioNames = SameNames(accNet)
    /\ maxCandResub = maxCandLacs
    /\ iBit = 0
    /\ drivId = -1
    /\ constIds = <<-1, -1>>
    /\ maxErr0 = -1
    /\ maxErr1 = -1
    /\ gainRoot \in {i \in Ids(accNet) : IsNode(accNet, i)}
    /\ gainDivs \in {SortedSeq(S) : S \in {T \in SUBSET LiveIds(accNet) :
                                              Cardinality(T) <= MaxDivs}}
    /\ nSizeGain = -1
    /\ nSize = [i \in Ids(accNet) |-> Len(accNet.fanouts[i])]
    /\ appDat = <<>>
    /\ tempDat = <<>>
    /\ bdIdx = -1
    /\ bdPosWrtNode = <<>>

\* NetMan::GetSizeGain(int, const IntVect&) on the approximate network
Gain_GetSizeGain ==
    /\ pc = "gain"
    /\ pc' = "gained"
    /\ nSizeGain' = GetSizeGain(appNet, gainRoot, gainDivs)
    /\ nSize' = GetSizeGainRefs(appNet, gainRoot, gainDivs)
    /\ UNCHANGED <<gainRoot, gainDivs>>
    /\ UNCHANGED <<accNet, opt, appNet, accPatts, accPoDat, phases, phase, round, oldSize,
                   oldDepth, lacBlackList, countExNum, nUndef, everBlack, estLacs, nSolve>>
    /\ UNCHANGED passVars
    /\ UNCHANGED sortVars
    /\ UNCHANGED errVars
    /\ UNCHANGED <<netType, ioNames, maxCandResub>>
    /\ UNCHANGED truncVars
    /\ UNCHANGED bdVars

NextGain == Gain_GetSizeGain

SpecGain == InitGain /\ [][NextGain]_vars

\* C29: GetSizeGain leaves the fanout counter of every object of the
\* network as it was before the call, and the network itself untouched
C29_GetSizeGainRestoresRefs ==
    pc = "gained" => /\ nSize = [i \in Ids(accNet) |-> Len(accNet.fanouts[i])]
                     /\ appNet = accNet

\* a call that dereferenced a cone of more than one node around a divisor
C29_Witness ==
    /\ pc = "gained"
    /\ nSizeGain >= 2
    /\ gainDivs # <<>>
    /\ nSizeGain < GetSizeGain(appNet, gainRoot, <<>>)

\* the vector CalcBoolDiff reads for a fanin: tempDat if the fanin is marked
\* as traversed, else dat
BdFaninDat(d, st, fi) == IF fi \in st.trav THEN st.tempDat[fi] ELSE d[fi]

\* an update that does not mark the node as traversed
UpdSopForBoolDiff_NoMark(net, d, st, id) ==
    [st EXCEPT !.tempDat[id] =
        [j \in 1 .. Len(d[id]) |->
            SopVal(net.sop[id], [i \in 1 .. GetFaninNum(net, id) |->
                                    BdFaninDat(d, st, net.fanins[id][i])[j]])]]

\* Simulator::UpdSopForBoolDiff: the SOP of the node over the vectors of its
\* fanins, written to tempDat; the node is marked as traversed
UpdSopForBoolDiff(net, d, st, id) ==
    [tempDat |-> [st.tempDat EXCEPT ![id] =
                     [j \in 1 .. Len(d[id]) |->
                         SopVal(net.sop[id], [i \in 1 .. GetFaninNum(net, id) |->
                                                 BdFaninDat(d, st, net.fanins[id][i])[j]])]],
     trav |-> st.trav \cup {id}]

\* Simulator::UpdSopNodeForBoolDiff: an output copies the vector of its driver
UpdSopNodeForBoolDiff(net, d, st, id) ==
    IF IsObjPo(net, id)
    THEN [st EXCEPT !.tempDat[id] = BdFaninDat(d, st, net.fanins[id][1])]
    ELSE UpdSopForBoolDiff(net, d, st, id)

\* CalcBoolDiff, "simulate from the i-th node": the nodes topoNodes[k], ...
\* (k counts from 0) that have a traversed fanin are updated
RECURSIVE BoolDiffNodes(_, _, _, _, _)
BoolDiffNodes(net, d, st, topoNodes, k) ==
    IF k >= Len(topoNodes) THEN st
    ELSE LET id == topoNodes[k + 1]
             isOneFaninTrav == \E i \in 1 .. GetFaninNum(net, id) : net.fanins[id][i] \in st.trav
         IN  BoolDiffNodes(net, d,
                           IF isOneFaninTrav THEN UpdSopNodeForBoolDiff(net, d, st, id) ELSE st,
                           topoNodes, k + 1)

RECURSIVE BoolDiffPos(_, _, _, _)
BoolDiffPos(net, d, st, pos) ==
    IF pos = <<>> THEN st
    ELSE BoolDiffPos(net, d, UpdSopNodeForBoolDiff(net, d, st, Head(pos)), Tail(pos))

\* Simulator::CalcBoolDiff on the tables d (dat) and t (tempDat): tempDat is
\* resized to dat, the target is flipped in tempDat, the nodes after it and
\* the outputs are updated, the result is dat XOR tempDat on the outputs
CalcBoolDiff(net, d, t, topoNodes, idx) ==
    LET t0 == IF DOMAIN t # DOMAIN d
              THEN [id \in DOMAIN d |-> IF id \in DOMAIN t THEN t[id]
                                        ELSE [j \in 1 .. Len(d[id]) |-> 0]]
              ELSE t
        pTarg == topoNodes[idx + 1]
        st0 == [tempDat |-> [t0 EXCEPT ![pTarg] = [j \in 1 .. Len(d[pTarg]) |-> 1 - d[pTarg][j]]],
                trav |-> {pTarg}]
        st1 == BoolDiffPos(net, d, BoolDiffNodes(net, d, st0, topoNodes, idx + 1), PoIds(net))
    IN  [tempDat |-> st1.tempDat,
         bdPosWrtNode |-> [i \in 1 .. GetPoNum(net) |->
                              [j \in 1 .. Len(d[PoIds(net)[i]]) |->
                                  Xor(d[PoIds(net)[i]][j], st1.tempDat[PoIds(net)[i]][j])]]]

BdNets == GainNets

\* a simulator of the approximate network after LogicSim, on seeded frames
\* or on the enumeration of all inputs
InitBd ==
    /\ accNet \in BdNets
    /\ opt \in {o \in Options(accNet) : o.flow = "v2" /\ o.errUppBound = 0
                   /\ o.metrType = "MAXED"}
    /\ appNet = accNet
    /\ accPatts = GenInpUnif(opt.seed, opt.nFrame, GetPiNum(accNet))
    /\ accPoDat = SimPos(accNet, accPatts)
    /\ pc = "bd"
    /\ counterExPiPatts = [i \in 1 .. GetPiNum(accNet) |-> <<>>]
    /\ trialBase = accNet
    /\ trialNet = accNet
    /\ phases = <<>>
    /\ phase = NoPhase
    /\ round = 1
    /\ oldSize = 0
    /\ oldDepth = 0
    /\ lacBlackList = {}
    /\ countExNum = 0
    /\ lacs = <<>>
    /\ nVisited = 0
    /\ curLac = NoLac
    /\ replTrace = <<>>
    /\ frozTargNodes = {}
    /\ existValidLac = FALSE
    /\ counterEx = <<>>
    /\ nUndef = 0
    /\ lastStep = "none"
    /\ passCommits = <<>>
    /\ everBlack = {}
    /\ estLacs = <<>>
    /\ kTop = 0
    /\ sorted1 = <<>>
    /\ smlt = <<>>
    /\ maxErr = -1
    /\ nSolve = 0
    /\ netType = [acc |-> "SOP", app |-> "SOP"]
    /\ ioNames = SameNames(accNet)
    /\ maxCandResub = maxCandLacs
    /\ iBit = 0
    /\ drivId = -1
    /\ constIds = <<-1, -1>>
    /\ maxErr0 = -1
    /\ maxErr1 = -1
    /\ gainRoot = -1
    /\ gainDivs = <<>>
    /\ nSizeGain = -1
    /\ nSize = <<>>
    /\ appDat \in {UpdNodeAndPoPatts(appNet, InitConstNodes(appNet,
                                                            DatOfPatts(appNet, accPatts))),
                   LogicSimEnum(appNet)}
    /\ tempDat = <<>>
    /\ bdIdx = -1
    /\ bdPosWrtNode = <<>>

\* Simulator::CalcBoolDiff on a node of the topological order of the
\* approximate network; the network must be in SOP form
Smlt_CalcBoolDiff ==
    /\ pc = "bd"
    /\ netType.app = "SOP"
    /\ \E topoNodes \in {CalcTopoOrd(appNet)} :
          \E idx \in 0 .. (Len(topoNodes) - 1) :
             \E r \in {CalcBoolDiff(appNet, appDat, tempDat, topoNodes, idx)} :
                /\ bdIdx' = idx
                /\ tempDat' = r.tempDat
                /\ bdPosWrtNode' = r.bdPosWrtNode
    /\ UNCHANGED appDat
    /\ UNCHANGED <<accNet, opt, appNet, accPatts, accPoDat, pc, phases, phase, round, oldSize,
                   oldDepth, lacBlackList, countExNum, nUndef, everBlack, estLacs, nSolve>>
    /\ UNCHANGED passVars
    /\ UNCHANGED sortVars
    /\ UNCHANGED errVars
    /\ UNCHANGED <<netType, ioNames, maxCandResub>>
    /\ UNCHANGED truncVars
    /\ UNCHANGED <<gainRoot, gainDivs, nSizeGain, nSize>>

NextBd == Smlt_CalcBoolDiff

SpecBd == InitBd /\ [][NextBd]_vars

\* the input assignment of frame j (counted from 1) of the committed table
BdPatt(j) == GetInput(appNet, appDat, j - 1, 0, GetPiNum(appNet) - 1)

BdFrames == 1 .. Len(appDat[PoIds(appNet)[1]])

\* C30: the bit CalcBoolDiff returns for output i and frame j is 1 exactly
\* when the output changes if the value of the node is complemented in that
\* frame with the inputs as they are; the call leaves the committed table
\* and the network as they were, and the table stays the simulation of the
\* network
C30_BoolDiffIsFlipAndResimulate ==
    /\ [](bdIdx # -1 =>
            \A i \in 1 .. GetPoNum(appNet), j \in BdFrames :
               (bdPosWrtNode[i][j] = 1)
                  <=> (ObjValFlip(appNet, PoIds(appNet)[i], BdPatt(j),
                                  CalcTopoOrd(appNet)[bdIdx + 1])
                          # ObjVal(appNet, PoIds(appNet)[i], BdPatt(j))))
    /\ [](bdIdx # -1 => \A i \in 1 .. GetPoNum(appNet), j \in BdFrames :
                           bdPosWrtNode[i][j] \in {0, 1})
    /\ [](pc = "bd" => \A id \in LiveIds(appNet) \ SeqToSet(CalcTopoOrd(appNet)), j \in BdFrames :
                           IsObjPi(appNet, id) \/ IsObjPo(appNet, id) \/ IsConst(appNet, id)
                              => appDat[id][j] = ObjVal(appNet, id, BdPatt(j)))
    /\ [][pc = "bd" => appDat' = appDat /\ appNet' = appNet]_vars

\* a call on a node that is not an output driver, after an earlier call left
\* other values in tempDat: some output changes in one frame and not in another
C30_Witness ==
    /\ bdIdx # -1
    /\ LET pTarg == CalcTopoOrd(appNet)[bdIdx + 1]
       IN  /\ ~IsPoDriver(appNet, pTarg)
           /\ \E id \in SeqToSet(CalcTopoOrd(appNet)) :
                 id \notin Tfo(appNet, pTarg) /\ tempDat[id] # appDat[id]
                    /\ \E j \in BdFrames : tempDat[id][j] = 1
    /\ \E i \in 1 .. GetPoNum(appNet), j, k \in BdFrames :
          bdPosWrtNode[i][j] = 1 /\ bdPosWrtNode[i][k] = 0

====
